---- MODULE Spec2Model ----
(***************************************************************************)
(* Model of the session core of quick-tabletop-engine: the Manager of      *)
(* session/session.go (registry, join / command loop / leave of HandleWS,  *)
(* deferred reclamation, CreateSession, saveAllSnapshots) over the scene   *)
(* State of game/state.go.                                                 *)
(*                                                                         *)
(* Every goroutine that runs HandleWS is a process with a program counter; *)
(* m.mu is the variable mu.  A step that the code runs while holding m.mu  *)
(* is enabled only for the holder, a step that locks, works and unlocks    *)
(* without blocking in between is one action guarded by the lock being     *)
(* free.  time.AfterFunc timers count down with the action Tick.           *)
(***************************************************************************)
EXTENDS Integers, Sequences, FiniteSets, TLC

(***************************************************************************)
(* Bounds of the model: the command envelopes received, over all           *)
(* connections, in a behaviour of Spec or SpecSnap, in a behaviour of      *)
(* SpecPair, in a behaviour of SpecScene and, between two starts of the    *)
(* process, in a behaviour of SpecRestore.                                 *)
(***************************************************************************)
MaxCmds        == 1
MaxPairCmds    == 3
MaxSceneCmds   == 2
MaxRestoreCmds == 2

(***************************************************************************)
(* Program constants.  MaxSessions and MaxUsersPerSession are fields of    *)
(* config.Config read through m.cfg; the model runs a configuration of two *)
(* sessions with two users each.  One connection more than a session       *)
(* admits arrives, and uuid.NewString has one value more than the registry *)
(* has slots.                                                              *)
(***************************************************************************)
MaxSessions        == 2
MaxUsersPerSession == 2
Grace              == 2      \* time.AfterFunc(2*time.Second, ...)
DefaultGridUnit    == 96

Conns      == 1 .. (MaxUsersPerSession + 1)
SessionIds == 1 .. (MaxSessions + 1)
NoLock     == 0              \* m.mu is not held
NoTimer    == -1             \* no time.AfterFunc timer started
Fired      == -2             \* the timer function has run

(***************************************************************************)
(* game.State and its mutations.                                           *)
(***************************************************************************)
EmptyMap == [k \in {} |-> 0]

\* NewState with the grid off.
NewStateGridOff ==
  [ DisplayedTokens   |-> EmptyMap,
    BackgroundImgPath |-> "/assets/default/maps/tavern.jpg",
    ShowGrid          |-> FALSE,
    GridUnit          |-> DefaultGridUnit,
    AreaTemplates     |-> EmptyMap ]

NewState ==
  [ DisplayedTokens   |-> EmptyMap,
    BackgroundImgPath |-> "/assets/default/maps/tavern.jpg",
    ShowGrid          |-> TRUE,
    GridUnit          |-> DefaultGridUnit,
    AreaTemplates     |-> EmptyMap ]

\* m[id] = v of a Go map: insert or overwrite.
MapPut(m, id, v) == [k \in (DOMAIN m) \cup {id} |-> IF k = id THEN v ELSE m[k]]

\* delete(m, id) of a Go map: no-op when id is absent.
MapDelete(m, id) == [k \in (DOMAIN m) \ {id} |-> m[k]]

\* The zero values of game.TokenData and game.AreaTemplate.
ZeroToken == [Name |-> "", ImgPath |-> "", X |-> 0, Y |-> 0, TokenSize |-> 0]

ZeroTemplate ==
  [Shape |-> "", X |-> 0, Y |-> 0, Size |-> 0, Color |-> "", Opacity |-> 0]

\* AddToken that keeps the token already stored under id.
AddTokenKeepsOld(s, id, token) ==
  IF id \in DOMAIN s.DisplayedTokens
    THEN s
    ELSE [s EXCEPT !.DisplayedTokens = MapPut(s.DisplayedTokens, id, token)]

AddToken(s, id, token) ==
  [s EXCEPT !.DisplayedTokens = MapPut(s.DisplayedTokens, id, token)]

\* MoveToken that stores x and leaves y.
MoveTokenXOnly(s, id, x, y) ==
  IF id \in DOMAIN s.DisplayedTokens
    THEN [s EXCEPT !.DisplayedTokens =
            MapPut(s.DisplayedTokens, id,
                   [s.DisplayedTokens[id] EXCEPT !.X = x])]
    ELSE s

\* MoveToken that creates the entry it does not find.
MoveTokenUpsert(s, id, x, y) ==
  [s EXCEPT !.DisplayedTokens =
     MapPut(s.DisplayedTokens, id,
            [(IF id \in DOMAIN s.DisplayedTokens
                THEN s.DisplayedTokens[id] ELSE ZeroToken)
             EXCEPT !.X = x, !.Y = y])]

MoveToken(s, id, x, y) ==
  IF id \in DOMAIN s.DisplayedTokens
    THEN [s EXCEPT !.DisplayedTokens =
            MapPut(s.DisplayedTokens, id,
                   [s.DisplayedTokens[id] EXCEPT !.X = x, !.Y = y])]
    ELSE s

DeleteToken(s, id) ==
  [s EXCEPT !.DisplayedTokens = MapDelete(s.DisplayedTokens, id)]

\* ClearTokens that empties the area templates as well.
ClearTokensAll(s) ==
  [s EXCEPT !.DisplayedTokens = EmptyMap, !.AreaTemplates = EmptyMap]

ClearTokens(s) == [s EXCEPT !.DisplayedTokens = EmptyMap]

ChangeBackgroundImg(s, path) == [s EXCEPT !.BackgroundImgPath = path]

\* ToggleGrid that switches the grid off (false for !s.ShowGrid).
ToggleGridOff(s) == [s EXCEPT !.ShowGrid = FALSE]

ToggleGrid(s) == [s EXCEPT !.ShowGrid = ~s.ShowGrid]

AddAreaTemplate(s, id, t) ==
  [s EXCEPT !.AreaTemplates = MapPut(s.AreaTemplates, id, t)]

\* MoveAreaTemplate that stores a new template holding only x and y.
MoveAreaTemplateResets(s, id, x, y) ==
  IF id \in DOMAIN s.AreaTemplates
    THEN [s EXCEPT !.AreaTemplates =
            MapPut(s.AreaTemplates, id,
                   [ZeroTemplate EXCEPT !.X = x, !.Y = y])]
    ELSE s

MoveAreaTemplate(s, id, x, y) ==
  IF id \in DOMAIN s.AreaTemplates
    THEN [s EXCEPT !.AreaTemplates =
            MapPut(s.AreaTemplates, id,
                   [s.AreaTemplates[id] EXCEPT !.X = x, !.Y = y])]
    ELSE s

DeleteAreaTemplate(s, id) ==
  [s EXCEPT !.AreaTemplates = MapDelete(s.AreaTemplates, id)]

ClearAreaTemplates(s) == [s EXCEPT !.AreaTemplates = EmptyMap]

(***************************************************************************)
(* JSON.  A payload is a record of the members present in the JSON object; *)
(* a payload that does not decode into the struct of its command type has  *)
(* the member "malformed".  json.Unmarshal leaves the struct field of an   *)
(* absent member at its zero value.                                        *)
(***************************************************************************)
DecodeOK(p) == "malformed" \notin DOMAIN p

FieldId(p)       == IF "id" \in DOMAIN p THEN p.id ELSE ""
FieldX(p)        == IF "x" \in DOMAIN p THEN p.x ELSE 0
FieldY(p)        == IF "y" \in DOMAIN p THEN p.y ELSE 0
FieldImgPath(p)  == IF "imgPath" \in DOMAIN p THEN p.imgPath ELSE ""
FieldToken(p)    == IF "token" \in DOMAIN p THEN p.token ELSE ZeroToken
FieldTemplate(p) == IF "template" \in DOMAIN p THEN p.template ELSE ZeroTemplate

\* json.Marshal of a Go map: null for a nil map, an object otherwise.  The
\* maps of a live State are never nil.
\* JsonToken of a TokenData whose TokenSize is not serialised.
JsonTokenNoSize(t) ==
  [name |-> t.Name, imgPath |-> t.ImgPath, x |-> t.X, y |-> t.Y]

JsonToken(t) ==
  [name |-> t.Name, imgPath |-> t.ImgPath, x |-> t.X, y |-> t.Y,
   tokenSize |-> t.TokenSize]

JsonTemplate(t) ==
  [shape |-> t.Shape, x |-> t.X, y |-> t.Y, size |-> t.Size,
   color |-> t.Color, opacity |-> t.Opacity]

\* json.Marshal(game.State): the members carry the names of the json tags.
MarshalState(s) ==
  [ displayedTokens   |-> [k \in DOMAIN s.DisplayedTokens |->
                             JsonToken(s.DisplayedTokens[k])],
    backgroundImgPath |-> s.BackgroundImgPath,
    showGrid          |-> s.ShowGrid,
    gridUnit          |-> s.GridUnit,
    areaTemplates     |-> [k \in DOMAIN s.AreaTemplates |->
                             JsonTemplate(s.AreaTemplates[k])] ]

\* A nil Go map, and the JSON value null.
NilMap   == [nil |-> TRUE]
JsonNull == [null |-> TRUE]

\* json.Unmarshal into game.TokenData and game.AreaTemplate: the fields of
\* absent members keep the zero value.
GoToken(j) ==
  [Name      |-> IF "name" \in DOMAIN j THEN j.name ELSE "",
   ImgPath   |-> IF "imgPath" \in DOMAIN j THEN j.imgPath ELSE "",
   X         |-> IF "x" \in DOMAIN j THEN j.x ELSE 0,
   Y         |-> IF "y" \in DOMAIN j THEN j.y ELSE 0,
   TokenSize |-> IF "tokenSize" \in DOMAIN j THEN j.tokenSize ELSE 0]

GoTemplate(j) ==
  [Shape   |-> IF "shape" \in DOMAIN j THEN j.shape ELSE "",
   X       |-> IF "x" \in DOMAIN j THEN j.x ELSE 0,
   Y       |-> IF "y" \in DOMAIN j THEN j.y ELSE 0,
   Size    |-> IF "size" \in DOMAIN j THEN j.size ELSE 0,
   Color   |-> IF "color" \in DOMAIN j THEN j.color ELSE "",
   Opacity |-> IF "opacity" \in DOMAIN j THEN j.opacity ELSE 0]

\* json.Unmarshal(stateJSON, &state) into a zero game.State, for a blob
\* that decodes: a map member that is absent or null leaves the map nil.
UnmarshalState(b) ==
  [ DisplayedTokens   |->
      IF "displayedTokens" \in DOMAIN b /\ b.displayedTokens # JsonNull
        THEN [k \in DOMAIN b.displayedTokens |-> GoToken(b.displayedTokens[k])]
        ELSE NilMap,
    BackgroundImgPath |->
      IF "backgroundImgPath" \in DOMAIN b THEN b.backgroundImgPath ELSE "",
    ShowGrid          |-> IF "showGrid" \in DOMAIN b THEN b.showGrid ELSE FALSE,
    GridUnit          |-> IF "gridUnit" \in DOMAIN b THEN b.gridUnit ELSE 0,
    AreaTemplates     |->
      IF "areaTemplates" \in DOMAIN b /\ b.areaTemplates # JsonNull
        THEN [k \in DOMAIN b.areaTemplates |-> GoTemplate(b.areaTemplates[k])]
        ELSE NilMap ]

StateUpdate(s) == [type |-> "state_update", payload |-> MarshalState(s)]

SessionFull == [type |-> "error", payload |-> [error |-> "session is full"]]

(***************************************************************************)
(* processCommand: msg is a decoded ClientMessage, uuid the value that     *)
(* uuid.NewString returns if the command asks for one.                     *)
(***************************************************************************)
\* processCommand that ignores the error of json.Unmarshal and applies the
\* command with whatever the payload struct holds.
processCommandIgnoresError(msg, state, uuid) ==
  LET p == msg.payload IN
  CASE msg.type = "add_token" -> AddToken(state, FieldId(p), FieldToken(p))
    [] msg.type = "move_token" ->
         MoveToken(state, FieldId(p), FieldX(p), FieldY(p))
    [] msg.type = "delete_token" -> DeleteToken(state, FieldId(p))
    [] msg.type = "clear_tokens" -> ClearTokens(state)
    [] msg.type = "change_background" ->
         ChangeBackgroundImg(state, FieldImgPath(p))
    [] msg.type = "toggle_grid" -> ToggleGrid(state)
    [] msg.type = "add_area_template" ->
         AddAreaTemplate(state, IF FieldId(p) = "" THEN uuid ELSE FieldId(p),
                         FieldTemplate(p))
    [] msg.type = "move_area_template" ->
         MoveAreaTemplate(state, FieldId(p), FieldX(p), FieldY(p))
    [] msg.type = "delete_area_template" ->
         DeleteAreaTemplate(state, FieldId(p))
    [] msg.type = "clear_area_templates" -> ClearAreaTemplates(state)
    [] OTHER -> state

\* processCommand that stores an area template under the id of the payload,
\* empty or not.
processCommandKeepsEmptyId(msg, state, uuid) ==
  LET p == msg.payload IN
  CASE msg.type = "add_token" ->
         IF DecodeOK(p) THEN AddToken(state, FieldId(p), FieldToken(p))
                        ELSE state
    [] msg.type = "move_token" ->
         IF DecodeOK(p) THEN MoveToken(state, FieldId(p), FieldX(p), FieldY(p))
                        ELSE state
    [] msg.type = "delete_token" ->
         IF DecodeOK(p) THEN DeleteToken(state, FieldId(p)) ELSE state
    [] msg.type = "clear_tokens" -> ClearTokens(state)
    [] msg.type = "change_background" ->
         IF DecodeOK(p) THEN ChangeBackgroundImg(state, FieldImgPath(p))
                        ELSE state
    [] msg.type = "toggle_grid" -> ToggleGrid(state)
    [] msg.type = "add_area_template" ->
         IF DecodeOK(p)
           THEN AddAreaTemplate(state, FieldId(p), FieldTemplate(p))
           ELSE state
    [] msg.type = "move_area_template" ->
         IF DecodeOK(p)
           THEN MoveAreaTemplate(state, FieldId(p), FieldX(p), FieldY(p))
           ELSE state
    [] msg.type = "delete_area_template" ->
         IF DecodeOK(p) THEN DeleteAreaTemplate(state, FieldId(p)) ELSE state
    [] msg.type = "clear_area_templates" -> ClearAreaTemplates(state)
    [] OTHER -> state

processCommand(msg, state, uuid) ==
  LET p == msg.payload IN
  CASE msg.type = "add_token" ->
         IF DecodeOK(p) THEN AddToken(state, FieldId(p), FieldToken(p))
                        ELSE state
    [] msg.type = "move_token" ->
         IF DecodeOK(p) THEN MoveToken(state, FieldId(p), FieldX(p), FieldY(p))
                        ELSE state
    [] msg.type = "delete_token" ->
         IF DecodeOK(p) THEN DeleteToken(state, FieldId(p)) ELSE state
    [] msg.type = "clear_tokens" -> ClearTokens(state)
    [] msg.type = "change_background" ->
         IF DecodeOK(p) THEN ChangeBackgroundImg(state, FieldImgPath(p))
                        ELSE state
    [] msg.type = "toggle_grid" -> ToggleGrid(state)
    [] msg.type = "add_area_template" ->
         IF DecodeOK(p)
           THEN AddAreaTemplate(state,
                                IF FieldId(p) = "" THEN uuid ELSE FieldId(p),
                                FieldTemplate(p))
           ELSE state
    [] msg.type = "move_area_template" ->
         IF DecodeOK(p)
           THEN MoveAreaTemplate(state, FieldId(p), FieldX(p), FieldY(p))
           ELSE state
    [] msg.type = "delete_area_template" ->
         IF DecodeOK(p) THEN DeleteAreaTemplate(state, FieldId(p)) ELSE state
    [] msg.type = "clear_area_templates" -> ClearAreaTemplates(state)
    [] OTHER -> state

(***************************************************************************)
(* State.                                                                  *)
(*   sessions  keys of m.sessions; the value stored under a key is the     *)
(*             pointer to the Session object allocated for that uuid       *)
(*   heap      the Session objects (Clients, State), by uuid               *)
(*   usedIds   uuids that uuid.NewString has returned                      *)
(*   mu        holder of m.mu: a connection, or NoLock                     *)
(*   pc        position of the HandleWS goroutine of each connection       *)
(*   sidOf     c.Params("sessionId") of each connection (0: not arrived)   *)
(*   bdata     data marshalled by broadcastState, todo the clients its     *)
(*             range loop has still to write to                            *)
(*   timer     time left of the time.AfterFunc timer a handler started     *)
(*             (NoTimer: none started, Fired: it has run)                                          *)
(*   wrote     per connection, the WriteMessage calls made on it, each     *)
(*             with its message and whether the connection was open        *)
(*   resp      the last HTTP response of CreateSession                     *)
(*   snapPc    position of saveAllSnapshots: "idle" or "saving"            *)
(*   snaps     the slice snaps of saveAllSnapshots: per session copied and *)
(*             not yet saved, the copy of its State; a copied State shares *)
(*             its two maps with the session until the session replaces    *)
(*             the map (tokShared, tmplShared); orig is the State at the   *)
(*             instant of the copy (history)                               *)
(*   mainPc    position of main: "boot" before RestoreSessions,            *)
(*             "listening" in app.Listen, "exited" after os.Exit           *)
(*   loaded    whether LoadAllSnapshots returned without error when        *)
(*             RestoreSessions last called it                              *)
(*   store     the rows of session_snapshots: session id -> state_json,    *)
(*             the JSON value the JSONB column keeps                       *)
(*   loadRet   what the last LoadAllSnapshots of a caller of the Store     *)
(*             returned: the map of id to bytes, and whether err was nil   *)
(*   final     the call of StopPeriodicSnapshots: pc is "none" before it,  *)
(*             "closed" after close(m.stopSnapshot), "saving" in the loop  *)
(*             of its saveAllSnapshots, "returned" after it; snaps is the  *)
(*             slice of copies of that saveAllSnapshots, done the ids it   *)
(*             has saved                                                   *)
(* History:                                                                *)
(*   reclaimed the sessions a timer function has deleted from m.sessions,  *)
(*             in this run of the process or an earlier one                *)
(*   recv      per connection, the messages c.ReadMessage has returned on  *)
(*             it: the decoded ClientMessage, or NotEnvelope for a message *)
(*             json.Unmarshal rejects                                      *)
(*   saved     per id, the bytes of the last SaveSnapshot that returned    *)
(*             nil, for the ids not deleted since                          *)
(*   base      per session, the State it was inserted with: NewState, or   *)
(*             the State RestoreSessions gave it                           *)
(*   cmdlog    per session, the commands applied, in order of application  *)
(*   joinIdx   per connection, Len(cmdlog) of its session when it joined   *)
(*   emptyFor  per session, the time (up to Grace) its Clients has been    *)
(*             empty                                                       *)
(***************************************************************************)
VARIABLES sessions, heap, usedIds, mu, pc, sidOf, bdata, todo, timer, wrote,
          resp, cmdlog, joinIdx, emptyFor, snapPc, snaps, store, mainPc, loaded,
          base, saved, loadRet, recv, reclaimed, final

vars == <<sessions, heap, usedIds, mu, pc, sidOf, bdata, todo, timer, wrote,
          resp, cmdlog, joinIdx, emptyFor, snapPc, snaps, store, mainPc,
          loaded, base, saved, loadRet, recv, reclaimed, final>>

\* The state of the snapshot goroutine and of the store.
snapVars == <<snapPc, snaps, store>>

\* The position of main and the states the sessions started from.
mainVars == <<mainPc, loaded, base>>

\* What the callers of the Store have been given: the data of the last
\* SaveSnapshot that succeeded for each id not deleted since, and the result
\* of a LoadAllSnapshots made after the last SaveSnapshot or DeleteSnapshot.
apiVars == <<saved, loadRet>>

\* The sessions the timers have removed, and the call of
\* StopPeriodicSnapshots.
endVars == <<reclaimed, final>>

\* StopPeriodicSnapshots has not been called.
NoFinal == [pc |-> "none", snaps |-> [k \in {} |-> 0], done |-> {}]

NoLoad == [ok |-> FALSE, snapshots |-> [called |-> FALSE]]

NoData == [type |-> "none"]
NoResp == [status |-> 0, id |-> 0]

Init ==
  /\ sessions = {}
  /\ heap     = [s \in SessionIds |-> [Clients |-> {}, State |-> NewState]]
  /\ usedIds  = {}
  /\ mu       = NoLock
  /\ pc       = [c \in Conns |-> "idle"]
  /\ sidOf    = [c \in Conns |-> 0]
  /\ bdata    = [c \in Conns |-> NoData]
  /\ todo     = [c \in Conns |-> {}]
  /\ timer    = [c \in Conns |-> NoTimer]
  /\ wrote    = [c \in Conns |-> <<>>]
  /\ resp     = NoResp
  /\ cmdlog   = [s \in SessionIds |-> <<>>]
  /\ joinIdx  = [c \in Conns |-> 0]
  /\ emptyFor = [s \in SessionIds |-> 0]
  /\ snapPc   = "idle"
  /\ snaps    = EmptyMap
  /\ store    = EmptyMap
  /\ mainPc   = "listening"
  /\ loaded   = TRUE
  /\ base     = [s \in SessionIds |-> NewState]
  /\ saved    = EmptyMap
  /\ loadRet  = NoLoad
  /\ recv     = [c \in Conns |-> <<>>]
  /\ reclaimed = {}
  /\ final    = NoFinal

\* c.Close() has run: the deferred function of HandleWS closes the
\* connection first, the two early returns close it last.
Closed(c) == pc[c] \in {"leaving", "done"}

\* c.WriteMessage(websocket.TextMessage, data) on connection x.
WriteMessage(x, data) ==
  wrote' = [wrote EXCEPT ![x] = Append(@, [msg |-> data, ok |-> ~Closed(x)])]

TotalCmds == LET RECURSIVE Sum(_)
                 Sum(S) == IF S = {} THEN 0
                           ELSE LET s == CHOOSE s \in S : TRUE
                                IN  Len(cmdlog[s]) + Sum(S \ {s})
             IN  Sum(SessionIds)

(***************************************************************************)
(* CreateSession (POST /session).                                          *)
(***************************************************************************)
\* uuid.NewString(): a value it has not returned before.  The uuids are
\* interchangeable, so the least unused one stands for any of them.
NewString ==
  IF SessionIds \ usedIds = {} THEN {}
  ELSE {CHOOSE id \in SessionIds \ usedIds :
          \A other \in SessionIds \ usedIds : id <= other}

\* CreateSession with the capacity check off by one (> for >=).
CreateSessionOffByOne ==
  /\ mu = NoLock
  /\ IF Cardinality(sessions) > MaxSessions
       THEN /\ resp' = [status |-> 429, id |-> 0]
            /\ UNCHANGED <<sessions, heap, usedIds, emptyFor>>
       ELSE \E id \in NewString :
              /\ sessions' = sessions \cup {id}
              /\ heap'     = [heap EXCEPT ![id] =
                                [Clients |-> {}, State |-> NewState]]
              /\ usedIds'  = usedIds \cup {id}
              /\ emptyFor' = [emptyFor EXCEPT ![id] = 0]
              /\ resp'     = [status |-> 201, id |-> id]
  /\ UNCHANGED <<mu, pc, sidOf, bdata, todo, timer, wrote, cmdlog, joinIdx>>
  /\ UNCHANGED snapVars
  /\ UNCHANGED mainVars
  /\ UNCHANGED apiVars
  /\ UNCHANGED recv
  /\ UNCHANGED endVars

CreateSession ==
  /\ mu = NoLock
  /\ IF Cardinality(sessions) >= MaxSessions
       THEN /\ resp' = [status |-> 429, id |-> 0]
            /\ UNCHANGED <<sessions, heap, usedIds, emptyFor>>
       ELSE \E id \in NewString :
              /\ sessions' = sessions \cup {id}
              /\ heap'     = [heap EXCEPT ![id] =
                                [Clients |-> {}, State |-> NewState]]
              /\ usedIds'  = usedIds \cup {id}
              /\ emptyFor' = [emptyFor EXCEPT ![id] = 0]
              /\ resp'     = [status |-> 201, id |-> id]
  /\ UNCHANGED <<mu, pc, sidOf, bdata, todo, timer, wrote, cmdlog, joinIdx>>
  /\ UNCHANGED snapVars
  /\ UNCHANGED mainVars
  /\ UNCHANGED apiVars
  /\ UNCHANGED recv
  /\ UNCHANGED endVars

(***************************************************************************)
(* HandleWS, join: lines 199-228.                                          *)
(***************************************************************************)
\* The connections are interchangeable until they arrive: they arrive in
\* the order of their numbers.
Arrived(c) == IF c \in Conns THEN pc[c] # "idle" ELSE TRUE

\* JoinLock that answers an unknown id with an error message.
JoinLockTellsUnknown(c, sid) ==
  /\ pc[c] = "idle"
  /\ Arrived(c - 1)
  /\ mu = NoLock
  /\ sidOf' = [sidOf EXCEPT ![c] = sid]
  /\ IF sid \in sessions
       THEN /\ mu' = c
            /\ pc' = [pc EXCEPT ![c] = "admitting"]
            /\ wrote' = wrote
       ELSE /\ mu' = NoLock
            /\ pc' = [pc EXCEPT ![c] = "done"]
            /\ WriteMessage(c, [type |-> "error",
                                payload |-> [error |-> "session not found"]])
  /\ UNCHANGED <<sessions, heap, usedIds, bdata, todo, timer, resp,
                 cmdlog, joinIdx, emptyFor>>
  /\ UNCHANGED snapVars
  /\ UNCHANGED mainVars
  /\ UNCHANGED apiVars
  /\ UNCHANGED recv
  /\ UNCHANGED endVars

\* Lock, look the session up; an unknown id unlocks, closes and returns.
JoinLock(c, sid) ==
  /\ pc[c] = "idle"
  /\ Arrived(c - 1)
  /\ mu = NoLock
  /\ sidOf' = [sidOf EXCEPT ![c] = sid]
  /\ IF sid \in sessions
       THEN /\ mu' = c
            /\ pc' = [pc EXCEPT ![c] = "admitting"]
       ELSE /\ mu' = NoLock
            /\ pc' = [pc EXCEPT ![c] = "done"]
  /\ UNCHANGED <<sessions, heap, usedIds, bdata, todo, timer, wrote, resp,
                 cmdlog, joinIdx, emptyFor>>
  /\ UNCHANGED snapVars
  /\ UNCHANGED mainVars
  /\ UNCHANGED apiVars
  /\ UNCHANGED recv
  /\ UNCHANGED endVars

\* JoinAdmit with the capacity check off by one (> for >=).
JoinAdmitOffByOne(c) ==
  /\ pc[c] = "admitting"
  /\ IF Cardinality(heap[sidOf[c]].Clients) > MaxUsersPerSession
       THEN /\ mu' = NoLock
            /\ pc' = [pc EXCEPT ![c] = "rejecting"]
            /\ UNCHANGED <<heap, joinIdx, emptyFor>>
       ELSE /\ heap' = [heap EXCEPT ![sidOf[c]].Clients = @ \cup {c}]
            /\ pc' = [pc EXCEPT ![c] = "sending"]
            /\ joinIdx' = [joinIdx EXCEPT ![c] = Len(cmdlog[sidOf[c]])]
            /\ emptyFor' = [emptyFor EXCEPT ![sidOf[c]] = 0]
            /\ UNCHANGED mu
  /\ UNCHANGED <<sessions, usedIds, sidOf, bdata, todo, timer, wrote, resp,
                 cmdlog>>
  /\ UNCHANGED snapVars
  /\ UNCHANGED mainVars
  /\ UNCHANGED apiVars
  /\ UNCHANGED recv
  /\ UNCHANGED endVars

\* JoinAdmit that inserts the connection before it checks the capacity.
JoinAdmitInsertFirst(c) ==
  /\ pc[c] = "admitting"
  /\ heap' = [heap EXCEPT ![sidOf[c]].Clients = @ \cup {c}]
  /\ IF Cardinality(heap'[sidOf[c]].Clients) > MaxUsersPerSession
       THEN /\ mu' = NoLock
            /\ pc' = [pc EXCEPT ![c] = "rejecting"]
            /\ UNCHANGED <<joinIdx, emptyFor>>
       ELSE /\ pc' = [pc EXCEPT ![c] = "sending"]
            /\ joinIdx' = [joinIdx EXCEPT ![c] = Len(cmdlog[sidOf[c]])]
            /\ emptyFor' = [emptyFor EXCEPT ![sidOf[c]] = 0]
            /\ UNCHANGED mu
  /\ UNCHANGED <<sessions, usedIds, sidOf, bdata, todo, timer, wrote, resp,
                 cmdlog>>
  /\ UNCHANGED snapVars
  /\ UNCHANGED mainVars
  /\ UNCHANGED apiVars
  /\ UNCHANGED recv
  /\ UNCHANGED endVars

\* The capacity check and, if it passes, session.Clients[c] = true.
JoinAdmit(c) ==
  /\ pc[c] = "admitting"
  /\ IF Cardinality(heap[sidOf[c]].Clients) >= MaxUsersPerSession
       THEN /\ mu' = NoLock
            /\ pc' = [pc EXCEPT ![c] = "rejecting"]
            /\ UNCHANGED <<heap, joinIdx, emptyFor>>
       ELSE /\ heap' = [heap EXCEPT ![sidOf[c]].Clients = @ \cup {c}]
            /\ pc' = [pc EXCEPT ![c] = "sending"]
            /\ joinIdx' = [joinIdx EXCEPT ![c] = Len(cmdlog[sidOf[c]])]
            /\ emptyFor' = [emptyFor EXCEPT ![sidOf[c]] = 0]
            /\ UNCHANGED mu
  /\ UNCHANGED <<sessions, usedIds, sidOf, bdata, todo, timer, wrote, resp,
                 cmdlog>>
  /\ UNCHANGED snapVars
  /\ UNCHANGED mainVars
  /\ UNCHANGED apiVars
  /\ UNCHANGED recv
  /\ UNCHANGED endVars

\* The "session is full" message, then c.Close().
Reject(c) ==
  /\ pc[c] = "rejecting"
  /\ WriteMessage(c, SessionFull)
  /\ pc' = [pc EXCEPT ![c] = "done"]
  /\ UNCHANGED <<sessions, heap, usedIds, mu, sidOf, bdata, todo, timer, resp,
                 cmdlog, joinIdx, emptyFor>>
  /\ UNCHANGED snapVars
  /\ UNCHANGED mainVars
  /\ UNCHANGED apiVars
  /\ UNCHANGED recv
  /\ UNCHANGED endVars

\* JoinSend that sends the state of a new session, not the current one.
JoinSendNewState(c) ==
  /\ pc[c] = "sending"
  /\ WriteMessage(c, StateUpdate(NewState))
  /\ mu' = NoLock
  /\ pc' = [pc EXCEPT ![c] = "active"]
  /\ UNCHANGED <<sessions, heap, usedIds, sidOf, bdata, todo, timer, resp,
                 cmdlog, joinIdx, emptyFor>>
  /\ UNCHANGED snapVars
  /\ UNCHANGED mainVars
  /\ UNCHANGED apiVars
  /\ UNCHANGED recv
  /\ UNCHANGED endVars

\* sendState(c, session.State), then m.mu.Unlock().
JoinSend(c) ==
  /\ pc[c] = "sending"
  /\ WriteMessage(c, StateUpdate(heap[sidOf[c]].State))
  /\ mu' = NoLock
  /\ pc' = [pc EXCEPT ![c] = "active"]
  /\ UNCHANGED <<sessions, heap, usedIds, sidOf, bdata, todo, timer, resp,
                 cmdlog, joinIdx, emptyFor>>
  /\ UNCHANGED snapVars
  /\ UNCHANGED mainVars
  /\ UNCHANGED apiVars
  /\ UNCHANGED recv
  /\ UNCHANGED endVars

(***************************************************************************)
(* HandleWS, command loop: lines 250-267, and broadcastState.              *)
(***************************************************************************)
\* What a command applied to session s does to a copy of its State held by
\* saveAllSnapshots.  The copy is a struct copy: it has its own scalar
\* fields and shares the two maps, which Add, Move and Delete change in
\* place.  ClearTokens and ClearAreaTemplates give the session a new map and
\* leave the copy with the old one.
SnapsAfter(s, msg) ==
  IF s \notin DOMAIN snaps THEN snaps
  ELSE [snaps EXCEPT ![s] =
          [state |-> [@.state EXCEPT
                        !.DisplayedTokens =
                           IF snaps[s].tokShared
                             THEN heap[s].State.DisplayedTokens ELSE @,
                        !.AreaTemplates =
                           IF snaps[s].tmplShared
                             THEN heap[s].State.AreaTemplates ELSE @],
           orig       |-> @.orig,
           tokShared  |-> @.tokShared /\ msg.type # "clear_tokens",
           tmplShared |-> @.tmplShared /\ msg.type # "clear_area_templates"]]

\* The same for the copies held by the saveAllSnapshots of
\* StopPeriodicSnapshots.
FinalAfter(s, msg) ==
  IF s \notin DOMAIN final.snaps THEN final
  ELSE [final EXCEPT !.snaps[s] =
          [state |-> [@.state EXCEPT
                        !.DisplayedTokens =
                           IF final.snaps[s].tokShared
                             THEN heap[s].State.DisplayedTokens ELSE @,
                        !.AreaTemplates =
                           IF final.snaps[s].tmplShared
                             THEN heap[s].State.AreaTemplates ELSE @],
           orig       |-> @.orig,
           tokShared  |-> @.tokShared /\ msg.type # "clear_tokens",
           tmplShared |-> @.tmplShared /\ msg.type # "clear_area_templates"]]

\* CmdApply whose broadcast leaves the sender out.
CmdApplyNoEcho(c, msg, uuid) ==
  /\ pc[c] = "active"
  /\ mu = NoLock
  /\ mu' = c
  /\ LET st == processCommand(msg, heap[sidOf[c]].State, uuid) IN
       /\ heap'  = [heap EXCEPT ![sidOf[c]].State = st]
       /\ bdata' = [bdata EXCEPT ![c] = StateUpdate(st)]
  /\ todo'   = [todo EXCEPT ![c] = heap[sidOf[c]].Clients \ {c}]
  /\ cmdlog' = [cmdlog EXCEPT ![sidOf[c]] =
                  Append(@, [msg |-> msg, uuid |-> uuid, by |-> c])]
  /\ pc'     = [pc EXCEPT ![c] = "broadcast"]
  /\ UNCHANGED <<sessions, usedIds, sidOf, timer, wrote, resp, joinIdx,
                 emptyFor>>
  /\ snaps' = SnapsAfter(sidOf[c], msg)
  /\ UNCHANGED <<snapPc, store>>
  /\ UNCHANGED mainVars
  /\ UNCHANGED apiVars
  /\ recv' = [recv EXCEPT ![c] = Append(@, msg)]
  /\ final' = FinalAfter(sidOf[c], msg)
  /\ UNCHANGED reclaimed

\* CmdApply without m.mu.Lock(): the command is applied and broadcast
\* whoever holds the lock.
CmdApplyNoLock(c, msg, uuid) ==
  /\ pc[c] = "active"
  /\ LET st == processCommand(msg, heap[sidOf[c]].State, uuid) IN
       /\ heap'  = [heap EXCEPT ![sidOf[c]].State = st]
       /\ bdata' = [bdata EXCEPT ![c] = StateUpdate(st)]
  /\ todo'   = [todo EXCEPT ![c] = heap[sidOf[c]].Clients]
  /\ cmdlog' = [cmdlog EXCEPT ![sidOf[c]] =
                  Append(@, [msg |-> msg, uuid |-> uuid, by |-> c])]
  /\ pc'     = [pc EXCEPT ![c] = "broadcast"]
  /\ UNCHANGED <<sessions, usedIds, mu, sidOf, timer, wrote, resp, joinIdx,
                 emptyFor>>
  /\ snaps' = SnapsAfter(sidOf[c], msg)
  /\ UNCHANGED <<snapPc, store>>
  /\ UNCHANGED mainVars
  /\ UNCHANGED apiVars
  /\ recv' = [recv EXCEPT ![c] = Append(@, msg)]
  /\ final' = FinalAfter(sidOf[c], msg)
  /\ UNCHANGED reclaimed

\* CmdApply whose broadcast ranges over the clients of every session.
CmdApplyAllSessions(c, msg, uuid) ==
  /\ pc[c] = "active"
  /\ mu = NoLock
  /\ mu' = c
  /\ LET st == processCommand(msg, heap[sidOf[c]].State, uuid) IN
       /\ heap'  = [heap EXCEPT ![sidOf[c]].State = st]
       /\ bdata' = [bdata EXCEPT ![c] = StateUpdate(st)]
  /\ todo'   = [todo EXCEPT ![c] = UNION {heap[s].Clients : s \in SessionIds}]
  /\ cmdlog' = [cmdlog EXCEPT ![sidOf[c]] =
                  Append(@, [msg |-> msg, uuid |-> uuid, by |-> c])]
  /\ pc'     = [pc EXCEPT ![c] = "broadcast"]
  /\ UNCHANGED <<sessions, usedIds, sidOf, timer, wrote, resp, joinIdx,
                 emptyFor>>
  /\ snaps' = SnapsAfter(sidOf[c], msg)
  /\ UNCHANGED <<snapPc, store>>
  /\ UNCHANGED mainVars
  /\ UNCHANGED apiVars
  /\ recv' = [recv EXCEPT ![c] = Append(@, msg)]
  /\ final' = FinalAfter(sidOf[c], msg)
  /\ UNCHANGED reclaimed

\* A message that decodes as a ClientMessage has been read: m.mu.Lock(),
\* processCommand(clientMsg, &session.State), and the json.Marshal that
\* opens broadcastState.
\* CmdApply on sessions whose States hold the same maps: the command shows
\* in the State of every session.
CmdApplySharedMaps(c, msg, uuid) ==
  /\ pc[c] = "active"
  /\ mu = NoLock
  /\ mu' = c
  /\ LET st == processCommand(msg, heap[sidOf[c]].State, uuid) IN
       /\ heap'  = [s \in SessionIds |->
                      [heap[s] EXCEPT !.State =
                         processCommand(msg, heap[s].State, uuid)]]
       /\ bdata' = [bdata EXCEPT ![c] = StateUpdate(st)]
  /\ todo'   = [todo EXCEPT ![c] = heap[sidOf[c]].Clients]
  /\ cmdlog' = [cmdlog EXCEPT ![sidOf[c]] =
                  Append(@, [msg |-> msg, uuid |-> uuid, by |-> c])]
  /\ pc'     = [pc EXCEPT ![c] = "broadcast"]
  /\ UNCHANGED <<sessions, usedIds, sidOf, timer, wrote, resp, joinIdx,
                 emptyFor>>
  /\ snaps' = SnapsAfter(sidOf[c], msg)
  /\ UNCHANGED <<snapPc, store>>
  /\ UNCHANGED mainVars
  /\ UNCHANGED apiVars
  /\ recv' = [recv EXCEPT ![c] = Append(@, msg)]
  /\ final' = FinalAfter(sidOf[c], msg)
  /\ UNCHANGED reclaimed

CmdApply(c, msg, uuid) ==
  /\ pc[c] = "active"
  /\ mu = NoLock
  /\ mu' = c
  /\ LET st == processCommand(msg, heap[sidOf[c]].State, uuid) IN
       /\ heap'  = [heap EXCEPT ![sidOf[c]].State = st]
       /\ bdata' = [bdata EXCEPT ![c] = StateUpdate(st)]
  /\ todo'   = [todo EXCEPT ![c] = heap[sidOf[c]].Clients]
  /\ cmdlog' = [cmdlog EXCEPT ![sidOf[c]] =
                  Append(@, [msg |-> msg, uuid |-> uuid, by |-> c])]
  /\ pc'     = [pc EXCEPT ![c] = "broadcast"]
  /\ UNCHANGED <<sessions, usedIds, sidOf, timer, wrote, resp, joinIdx,
                 emptyFor>>
  /\ snaps' = SnapsAfter(sidOf[c], msg)
  /\ UNCHANGED <<snapPc, store>>
  /\ UNCHANGED mainVars
  /\ UNCHANGED apiVars
  /\ recv' = [recv EXCEPT ![c] = Append(@, msg)]
  /\ final' = FinalAfter(sidOf[c], msg)
  /\ UNCHANGED reclaimed

\* BroadcastWrite that returns from broadcastState when WriteMessage fails.
BroadcastWriteAborts(c, x) ==
  /\ pc[c] = "broadcast"
  /\ x \in todo[c]
  /\ WriteMessage(x, bdata[c])
  /\ todo' = [todo EXCEPT ![c] = IF Closed(x) THEN {} ELSE @ \ {x}]
  /\ UNCHANGED <<sessions, heap, usedIds, mu, pc, sidOf, bdata, timer, resp,
                 cmdlog, joinIdx, emptyFor>>
  /\ UNCHANGED snapVars
  /\ UNCHANGED mainVars
  /\ UNCHANGED apiVars
  /\ UNCHANGED recv
  /\ UNCHANGED endVars

\* One iteration of "for client := range session.Clients".
BroadcastWrite(c, x) ==
  /\ pc[c] = "broadcast"
  /\ x \in todo[c]
  /\ WriteMessage(x, bdata[c])
  /\ todo' = [todo EXCEPT ![c] = @ \ {x}]
  /\ UNCHANGED <<sessions, heap, usedIds, mu, pc, sidOf, bdata, timer, resp,
                 cmdlog, joinIdx, emptyFor>>
  /\ UNCHANGED snapVars
  /\ UNCHANGED mainVars
  /\ UNCHANGED apiVars
  /\ UNCHANGED recv
  /\ UNCHANGED endVars

\* The range loop is over: m.mu.Unlock(), back to c.ReadMessage().
CmdUnlock(c) ==
  /\ pc[c] = "broadcast"
  /\ todo[c] = {}
  /\ mu' = NoLock
  /\ pc' = [pc EXCEPT ![c] = "active"]
  /\ bdata' = [bdata EXCEPT ![c] = NoData]
  /\ UNCHANGED <<sessions, heap, usedIds, sidOf, todo, timer, wrote, resp,
                 cmdlog, joinIdx, emptyFor>>
  /\ UNCHANGED snapVars
  /\ UNCHANGED mainVars
  /\ UNCHANGED apiVars
  /\ UNCHANGED recv
  /\ UNCHANGED endVars

\* A message that json.Unmarshal does not decode into a ClientMessage.
NotEnvelope == [invalid |-> "envelope"]

\* ReadInvalid without the continue: the zero ClientMessage is processed
\* and the state broadcast.
ReadInvalidBroadcasts(c) ==
  /\ pc[c] = "active"
  /\ mu = NoLock
  /\ mu' = c
  /\ recv' = [recv EXCEPT ![c] = Append(@, NotEnvelope)]
  /\ UNCHANGED endVars
  /\ bdata' = [bdata EXCEPT ![c] = StateUpdate(heap[sidOf[c]].State)]
  /\ todo' = [todo EXCEPT ![c] = heap[sidOf[c]].Clients]
  /\ pc' = [pc EXCEPT ![c] = "broadcast"]
  /\ UNCHANGED <<sessions, heap, usedIds, sidOf, timer, wrote, resp, cmdlog,
                 joinIdx, emptyFor>>
  /\ UNCHANGED snapVars
  /\ UNCHANGED mainVars
  /\ UNCHANGED apiVars

\* c.ReadMessage() returns a message, json.Unmarshal(msg, &clientMsg) an
\* error: log and continue, without taking the lock.
ReadInvalid(c) ==
  /\ pc[c] = "active"
  /\ recv' = [recv EXCEPT ![c] = Append(@, NotEnvelope)]
  /\ UNCHANGED endVars
  /\ UNCHANGED <<sessions, heap, usedIds, mu, pc, sidOf, bdata, todo, timer,
                 wrote, resp, cmdlog, joinIdx, emptyFor>>
  /\ UNCHANGED snapVars
  /\ UNCHANGED mainVars
  /\ UNCHANGED apiVars

(***************************************************************************)
(* HandleWS, leave: the deferred function, lines 230-248.                  *)
(***************************************************************************)
\* c.ReadMessage() returns an error: break, and the deferred c.Close().
ReadFail(c) ==
  /\ pc[c] = "active"
  /\ pc' = [pc EXCEPT ![c] = "leaving"]
  /\ UNCHANGED <<sessions, heap, usedIds, mu, sidOf, bdata, todo, timer,
                 wrote, resp, cmdlog, joinIdx, emptyFor>>
  /\ UNCHANGED snapVars
  /\ UNCHANGED mainVars
  /\ UNCHANGED apiVars
  /\ UNCHANGED recv
  /\ UNCHANGED endVars

\* LeaveRemove without delete(session.Clients, c).
LeaveRemoveNoDelete(c) ==
  /\ pc[c] = "leaving"
  /\ mu = NoLock
  /\ LET clients   == heap[sidOf[c]].Clients
         remaining == Cardinality(clients)
     IN  /\ heap' = [heap EXCEPT ![sidOf[c]].Clients = clients]
         /\ timer' = [timer EXCEPT ![c] = IF remaining = 0 THEN Grace ELSE @]
         /\ emptyFor' = [emptyFor EXCEPT ![sidOf[c]] =
                           IF remaining = 0 THEN 0 ELSE @]
  /\ pc' = [pc EXCEPT ![c] = "done"]
  /\ UNCHANGED <<sessions, usedIds, mu, sidOf, bdata, todo, wrote, resp,
                 cmdlog, joinIdx>>
  /\ UNCHANGED snapVars
  /\ UNCHANGED mainVars
  /\ UNCHANGED apiVars
  /\ UNCHANGED recv
  /\ UNCHANGED endVars

\* LeaveRemove that starts the timer when one client remains (== 1 for
\* == 0).
LeaveRemoveNoTimer(c) ==
  /\ pc[c] = "leaving"
  /\ mu = NoLock
  /\ LET clients   == heap[sidOf[c]].Clients \ {c}
         remaining == Cardinality(clients)
     IN  /\ heap' = [heap EXCEPT ![sidOf[c]].Clients = clients]
         /\ timer' = [timer EXCEPT ![c] = IF remaining = 1 THEN Grace ELSE @]
         /\ emptyFor' = [emptyFor EXCEPT ![sidOf[c]] =
                           IF remaining = 0 THEN 0 ELSE @]
  /\ pc' = [pc EXCEPT ![c] = "done"]
  /\ UNCHANGED <<sessions, usedIds, mu, sidOf, bdata, todo, wrote, resp,
                 cmdlog, joinIdx>>
  /\ UNCHANGED snapVars
  /\ UNCHANGED mainVars
  /\ UNCHANGED apiVars
  /\ UNCHANGED recv
  /\ UNCHANGED endVars

\* Lock, delete(session.Clients, c), remaining := len(session.Clients),
\* unlock; if remaining == 0, time.AfterFunc(2*time.Second, ...).  The timer
\* may fire any time from Grace on, so a timer started a little later is a
\* timer that fires a little later.
LeaveRemove(c) ==
  /\ pc[c] = "leaving"
  /\ mu = NoLock
  /\ LET clients   == heap[sidOf[c]].Clients \ {c}
         remaining == Cardinality(clients)
     IN  /\ heap' = [heap EXCEPT ![sidOf[c]].Clients = clients]
         /\ timer' = [timer EXCEPT ![c] = IF remaining = 0 THEN Grace ELSE @]
         /\ emptyFor' = [emptyFor EXCEPT ![sidOf[c]] =
                           IF remaining = 0 THEN 0 ELSE @]
  /\ pc' = [pc EXCEPT ![c] = "done"]
  /\ UNCHANGED <<sessions, usedIds, mu, sidOf, bdata, todo, wrote, resp,
                 cmdlog, joinIdx>>
  /\ UNCHANGED snapVars
  /\ UNCHANGED mainVars
  /\ UNCHANGED apiVars
  /\ UNCHANGED recv
  /\ UNCHANGED endVars

\* ReclaimFire that deletes the session without looking at its clients.
ReclaimFireNoRecheck(c) ==
  /\ timer[c] = 0
  /\ mu = NoLock
  /\ timer' = [timer EXCEPT ![c] = Fired]
  /\ sessions' = sessions \ {sidOf[c]}
  /\ UNCHANGED <<heap, usedIds, mu, pc, sidOf, bdata, todo, wrote, resp,
                 cmdlog, joinIdx, emptyFor>>
  /\ UNCHANGED snapVars
  /\ UNCHANGED mainVars
  /\ UNCHANGED apiVars
  /\ UNCHANGED recv
  /\ reclaimed' = reclaimed \cup (sessions \ sessions')
  /\ UNCHANGED final

\* The timer function: lock, look m.sessions[sessionId] up again, delete it
\* if it has no clients, unlock.
ReclaimFire(c) ==
  /\ timer[c] = 0
  /\ mu = NoLock
  /\ timer' = [timer EXCEPT ![c] = Fired]
  /\ sessions' = IF sidOf[c] \in sessions /\ Cardinality(heap[sidOf[c]].Clients) = 0
                   THEN sessions \ {sidOf[c]}
                   ELSE sessions
  /\ UNCHANGED <<heap, usedIds, mu, pc, sidOf, bdata, todo, wrote, resp,
                 cmdlog, joinIdx, emptyFor>>
  /\ UNCHANGED snapVars
  /\ UNCHANGED mainVars
  /\ UNCHANGED apiVars
  /\ UNCHANGED recv
  /\ reclaimed' = reclaimed \cup (sessions \ sessions')
  /\ UNCHANGED final

\* One time unit passes: every pending timer comes one unit closer, every
\* session with no client has been empty one unit longer.
Tick ==
  /\ timer' = [c \in Conns |-> IF timer[c] > 0 THEN timer[c] - 1 ELSE timer[c]]
  /\ emptyFor' = [s \in SessionIds |->
                    IF s \in sessions /\ heap[s].Clients = {} /\ emptyFor[s] < Grace
                      THEN emptyFor[s] + 1 ELSE emptyFor[s]]
  /\ UNCHANGED <<sessions, heap, usedIds, mu, pc, sidOf, bdata, todo, wrote,
                 resp, cmdlog, joinIdx>>
  /\ UNCHANGED snapVars
  /\ UNCHANGED mainVars
  /\ UNCHANGED apiVars
  /\ UNCHANGED recv
  /\ UNCHANGED endVars

(***************************************************************************)
(* saveAllSnapshots, lines 130-153, and Store.SaveSnapshot.                *)
(***************************************************************************)
\* Lock, copy the id and the State of every session, unlock.
SnapCopy ==
  /\ snapPc = "idle"
  /\ mu = NoLock
  /\ snaps' = [s \in sessions |->
                [state |-> heap[s].State, orig |-> heap[s].State,
                 tokShared |-> TRUE, tmplShared |-> TRUE]]
  /\ snapPc' = "saving"
  /\ UNCHANGED <<sessions, heap, usedIds, mu, pc, sidOf, bdata, todo, timer,
                 wrote, resp, cmdlog, joinIdx, emptyFor, store>>
  /\ UNCHANGED mainVars
  /\ UNCHANGED apiVars
  /\ UNCHANGED recv
  /\ UNCHANGED endVars

\* The State that json.Marshal(snap.state) reads: the copied scalars, and
\* the maps as they are now if the session still uses them.
SnapView(s) ==
  [snaps[s].state EXCEPT
     !.DisplayedTokens =
        IF snaps[s].tokShared THEN heap[s].State.DisplayedTokens ELSE @,
     !.AreaTemplates =
        IF snaps[s].tmplShared THEN heap[s].State.AreaTemplates ELSE @]

\* SnapSave that leaves the loop when SaveSnapshot fails (return where the
\* code logs and goes on).
SnapSaveStopsOnError(s, ok) ==
  /\ snapPc = "saving"
  /\ s \in DOMAIN snaps
  /\ store' = IF ok THEN MapPut(store, s, MarshalState(SnapView(s))) ELSE store
  /\ snaps' = IF ok THEN MapDelete(snaps, s) ELSE EmptyMap
  /\ UNCHANGED <<sessions, heap, usedIds, mu, pc, sidOf, bdata, todo, timer,
                 wrote, resp, cmdlog, joinIdx, emptyFor, snapPc>>
  /\ UNCHANGED mainVars
  /\ UNCHANGED apiVars
  /\ UNCHANGED recv
  /\ UNCHANGED endVars

\* One iteration of "for _, snap := range snaps": marshal and upsert; ok is
\* whether SaveSnapshot succeeds.
SnapSave(s, ok) ==
  /\ snapPc = "saving"
  /\ s \in DOMAIN snaps
  /\ store' = IF ok THEN MapPut(store, s, MarshalState(SnapView(s))) ELSE store
  /\ snaps' = MapDelete(snaps, s)
  /\ UNCHANGED <<sessions, heap, usedIds, mu, pc, sidOf, bdata, todo, timer,
                 wrote, resp, cmdlog, joinIdx, emptyFor, snapPc>>
  /\ UNCHANGED mainVars
  /\ UNCHANGED apiVars
  /\ UNCHANGED recv
  /\ UNCHANGED endVars

\* The loop is over: saveAllSnapshots returns.
SnapDone ==
  /\ snapPc = "saving"
  /\ snaps = EmptyMap
  /\ snapPc' = "idle"
  /\ UNCHANGED <<sessions, heap, usedIds, mu, pc, sidOf, bdata, todo, timer,
                 wrote, resp, cmdlog, joinIdx, emptyFor, snaps, store>>
  /\ UNCHANGED mainVars
  /\ UNCHANGED apiVars
  /\ UNCHANGED recv
  /\ UNCHANGED endVars

(***************************************************************************)
(* The inputs: command envelopes the clients send.                         *)
(***************************************************************************)
Goblin == [Name |-> "Goblin", ImgPath |-> "/goblin.jpg", X |-> 96, Y |-> 96,
           TokenSize |-> 96]

JsonGoblin == [name |-> "Goblin", imgPath |-> "/goblin.jpg", x |-> 96,
               y |-> 96, tokenSize |-> 96]

\* The token as the Go struct that json.Unmarshal fills from the payload.
CmdAddToken   == [type |-> "add_token", payload |-> [id |-> "t1", token |-> Goblin]]
CmdMoveTokenA == [type |-> "move_token", payload |-> [id |-> "t1", x |-> 1, y |-> 2]]
CmdMoveTokenB == [type |-> "move_token", payload |-> [id |-> "t1", x |-> 2, y |-> 1]]
CmdToggleGrid == [type |-> "toggle_grid", payload |-> [none |-> TRUE]]

LiveCmds == {CmdAddToken, CmdMoveTokenA, CmdMoveTokenB}

NoUuid == ""

Next ==
  \/ CreateSession
  \/ \E c \in Conns, sid \in SessionIds : JoinLock(c, sid)
  \/ \E c \in Conns : JoinAdmit(c)
  \/ \E c \in Conns : Reject(c)
  \/ \E c \in Conns : JoinSend(c)
  \/ \E c \in Conns, msg \in LiveCmds :
        TotalCmds < MaxCmds /\ CmdApply(c, msg, NoUuid)
  \/ \E c \in Conns, x \in Conns : BroadcastWrite(c, x)
  \/ \E c \in Conns : CmdUnlock(c)
  \/ \E c \in Conns : ReadFail(c)
  \/ \E c \in Conns : LeaveRemove(c)
  \/ \E c \in Conns : ReclaimFire(c)
  \/ Tick

Spec == Init /\ [][Next]_vars

(***************************************************************************)
(* SpecPair: the command path.  No more connections arrive than one        *)
(* session admits, so that none is refused; they send more commands; the   *)
(* reclamation timers do not run.                                          *)
(***************************************************************************)
Pair == 1 .. MaxUsersPerSession

NextPair ==
  \/ CreateSession
  \/ \E c \in Pair, sid \in SessionIds : JoinLock(c, sid)
  \/ \E c \in Pair : JoinAdmit(c)
  \/ \E c \in Pair : JoinSend(c)
  \/ \E c \in Pair, msg \in LiveCmds :
        TotalCmds < MaxPairCmds /\ CmdApply(c, msg, NoUuid)
  \/ \E c \in Pair, x \in Pair : BroadcastWrite(c, x)
  \/ \E c \in Pair : CmdUnlock(c)
  \/ \E c \in Pair : ReadFail(c)
  \/ \E c \in Pair : LeaveRemove(c)

SpecPair == Init /\ [][NextPair]_vars

(***************************************************************************)
(* SpecSnap: the connections of SpecPair, with the reclamation timers and  *)
(* with the goroutine of StartPeriodicSnapshots calling saveAllSnapshots.  *)
(***************************************************************************)
NextSnap ==
  \/ CreateSession
  \/ \E c \in Pair, sid \in SessionIds : JoinLock(c, sid)
  \/ \E c \in Pair : JoinAdmit(c)
  \/ \E c \in Pair : JoinSend(c)
  \/ \E c \in Pair, msg \in LiveCmds :
        TotalCmds < MaxCmds /\ CmdApply(c, msg, NoUuid)
  \/ \E c \in Pair, x \in Pair : BroadcastWrite(c, x)
  \/ \E c \in Pair : CmdUnlock(c)
  \/ \E c \in Pair : ReadFail(c)
  \/ \E c \in Pair : LeaveRemove(c)
  \/ \E c \in Pair : ReclaimFire(c)
  \/ Tick
  \/ SnapCopy
  \/ \E s \in SessionIds, ok \in BOOLEAN : SnapSave(s, ok)
  \/ SnapDone

SpecSnap == Init /\ [][NextSnap]_vars

\* SpecSnap with a store that accepts every SaveSnapshot: the handlers, the
\* timers and the copy loop are as in SpecSnap, and a save never fails.
NextSnapOk ==
  \/ CreateSession
  \/ \E c \in Pair, sid \in SessionIds : JoinLock(c, sid)
  \/ \E c \in Pair : JoinAdmit(c)
  \/ \E c \in Pair : JoinSend(c)
  \/ \E c \in Pair, msg \in LiveCmds :
        TotalCmds < MaxCmds /\ CmdApply(c, msg, NoUuid)
  \/ \E c \in Pair, x \in Pair : BroadcastWrite(c, x)
  \/ \E c \in Pair : CmdUnlock(c)
  \/ \E c \in Pair : ReadFail(c)
  \/ \E c \in Pair : LeaveRemove(c)
  \/ \E c \in Pair : ReclaimFire(c)
  \/ Tick
  \/ SnapCopy
  \/ \E s \in SessionIds : SnapSave(s, TRUE)
  \/ SnapDone

SpecSnapOk == Init /\ [][NextSnapOk]_vars

(***************************************************************************)
(* SpecScene: one connection sends every kind of command: the ten command  *)
(* types, with ids that are and are not keys of the maps, a payload that   *)
(* does not decode and a type that processCommand does not know.           *)
(***************************************************************************)
Circle == [Shape |-> "circle", X |-> 1, Y |-> 1, Size |-> 2,
           Color |-> "#ff0000", Opacity |-> 1]
Square == [Shape |-> "square", X |-> 2, Y |-> 2, Size |-> 1,
           Color |-> "#00ff00", Opacity |-> 1]

\* The values uuid.NewString returns inside processCommand, in the order in
\* which it returns them.
UuidPool == <<"uuid-1", "uuid-2", "uuid-3", "uuid-4", "uuid-5">>

CmdMoveTokenAbsent   == [type |-> "move_token",
                         payload |-> [id |-> "t2", x |-> 3, y |-> 3]]
CmdDeleteToken       == [type |-> "delete_token", payload |-> [id |-> "t1"]]
CmdDeleteTokenAbsent == [type |-> "delete_token", payload |-> [id |-> "t2"]]
CmdClearTokens       == [type |-> "clear_tokens", payload |-> [none |-> TRUE]]
CmdChangeBackground  == [type |-> "change_background",
                         payload |-> [imgPath |-> "/cave.jpg"]]
CmdAddTemplate       == [type |-> "add_area_template",
                         payload |-> [id |-> "a1", template |-> Circle]]
CmdAddTemplateAgain  == [type |-> "add_area_template",
                         payload |-> [id |-> "a1", template |-> Square]]
CmdAddTemplateAuto   == [type |-> "add_area_template",
                         payload |-> [template |-> Circle]]
CmdAddTemplateAtUuid == [type |-> "add_area_template",
                         payload |-> [id |-> UuidPool[1], template |-> Square]]
CmdMoveTemplate      == [type |-> "move_area_template",
                         payload |-> [id |-> "a1", x |-> 5, y |-> 6]]
CmdMoveTemplateAbsent == [type |-> "move_area_template",
                          payload |-> [id |-> "a2", x |-> 5, y |-> 6]]
CmdDeleteTemplate    == [type |-> "delete_area_template",
                         payload |-> [id |-> "a1"]]
CmdDeleteTemplateAbsent == [type |-> "delete_area_template",
                            payload |-> [id |-> "a2"]]
CmdClearTemplates    == [type |-> "clear_area_templates",
                         payload |-> [none |-> TRUE]]
CmdUnknown           == [type |-> "dance", payload |-> [id |-> "t1"]]
CmdAddTokenMalformed == [type |-> "add_token",
                         payload |-> [malformed |-> TRUE]]
CmdDeleteTemplateMalformed == [type |-> "delete_area_template",
                               payload |-> [malformed |-> TRUE]]

SceneCmds ==
  {CmdAddToken, CmdMoveTokenA, CmdMoveTokenAbsent, CmdDeleteToken,
   CmdDeleteTokenAbsent, CmdClearTokens, CmdChangeBackground, CmdToggleGrid,
   CmdAddTemplate, CmdAddTemplateAgain, CmdAddTemplateAuto,
   CmdAddTemplateAtUuid, CmdMoveTemplate, CmdMoveTemplateAbsent,
   CmdDeleteTemplate, CmdDeleteTemplateAbsent, CmdClearTemplates, CmdUnknown,
   CmdAddTokenMalformed, CmdDeleteTemplateMalformed}

\* The uuids processCommand has generated so far, in any session.
UsedUuids ==
  UNION {{cmdlog[s][i].uuid : i \in 1 .. Len(cmdlog[s])} : s \in SessionIds}
    \ {NoUuid}

\* uuid.NewString() in processCommand: a value it has not returned before.
NewTemplateId ==
  LET free == {i \in 1 .. Len(UuidPool) : UuidPool[i] \notin UsedUuids}
  IN  IF free = {} THEN {}
      ELSE {UuidPool[CHOOSE i \in free : \A j \in free : i <= j]}

\* "if id == "" { id = uuid.NewString() }" is reached.
CallsNewString(msg) ==
  /\ msg.type = "add_area_template"
  /\ DecodeOK(msg.payload)
  /\ FieldId(msg.payload) = ""

\* A client names a generated id only after the server has sent it.
Sendable(msg) ==
  \/ \A i \in 1 .. Len(UuidPool) : FieldId(msg.payload) # UuidPool[i]
  \/ FieldId(msg.payload) \in UsedUuids

Solo == {1}

NextScene ==
  \/ CreateSession
  \/ \E c \in Solo, sid \in SessionIds : JoinLock(c, sid)
  \/ \E c \in Solo : JoinAdmit(c)
  \/ \E c \in Solo : JoinSend(c)
  \/ \E c \in Solo, msg \in SceneCmds :
        /\ TotalCmds < MaxSceneCmds
        /\ Sendable(msg)
        /\ IF CallsNewString(msg)
             THEN \E u \in NewTemplateId : CmdApply(c, msg, u)
             ELSE CmdApply(c, msg, NoUuid)
  \/ \E c \in Solo, x \in Solo : BroadcastWrite(c, x)
  \/ \E c \in Solo : CmdUnlock(c)
  \/ \E c \in Solo : ReadFail(c)
  \/ \E c \in Solo : LeaveRemove(c)

SpecScene == Init /\ [][NextScene]_vars

(***************************************************************************)
(* main with a store, lines 49-72 of main.go, and RestoreSessions, lines   *)
(* 61-95.                                                                  *)
(***************************************************************************)
\* "Ensure maps are initialized".
EnsureMaps(st) ==
  [st EXCEPT !.DisplayedTokens = IF @ = NilMap THEN EmptyMap ELSE @,
             !.AreaTemplates   = IF @ = NilMap THEN EmptyMap ELSE @]

\* RestoreSessions that inserts the State as json.Unmarshal left it.
RestoreSessionsKeepsNil(loadOk) ==
  /\ mainPc = "boot"
  /\ mu = NoLock
  /\ loaded' = loadOk
  /\ LET good == IF loadOk THEN {s \in DOMAIN store : DecodeOK(store[s])}
                  ELSE {}
     IN  /\ sessions' = sessions \cup good
         /\ heap' = [s \in SessionIds |->
                       IF s \in good
                         THEN [Clients |-> {},
                               State   |-> UnmarshalState(store[s])]
                         ELSE heap[s]]
         /\ base' = [s \in SessionIds |->
                       IF s \in good THEN heap'[s].State ELSE NewState]
  /\ cmdlog' = [s \in SessionIds |-> <<>>]
  /\ snapPc' = "idle"
  /\ mainPc' = "listening"
  /\ UNCHANGED <<usedIds, mu, pc, sidOf, bdata, todo, timer, wrote, resp,
                 joinIdx, emptyFor, snaps, store>>
  /\ UNCHANGED apiVars
  /\ recv' = [c \in Conns |-> <<>>]
  /\ UNCHANGED endVars

\* RestoreSessions, then StartPeriodicSnapshots and app.Listen.  loadOk is
\* whether LoadAllSnapshots succeeds.  The commands logged for the process
\* before are forgotten.
RestoreSessions(loadOk) ==
  /\ mainPc = "boot"
  /\ mu = NoLock
  /\ loaded' = loadOk
  /\ LET good == IF loadOk THEN {s \in DOMAIN store : DecodeOK(store[s])}
                  ELSE {}
     IN  /\ sessions' = sessions \cup good
         /\ heap' = [s \in SessionIds |->
                       IF s \in good
                         THEN [Clients |-> {},
                               State   |-> EnsureMaps(UnmarshalState(store[s]))]
                         ELSE heap[s]]
         /\ base' = [s \in SessionIds |->
                       IF s \in good THEN heap'[s].State ELSE NewState]
  /\ cmdlog' = [s \in SessionIds |-> <<>>]
  /\ snapPc' = "idle"
  /\ mainPc' = "listening"
  /\ UNCHANGED <<usedIds, mu, pc, sidOf, bdata, todo, timer, wrote, resp,
                 joinIdx, emptyFor, snaps, store>>
  /\ UNCHANGED apiVars
  /\ recv' = [c \in Conns |-> <<>>]
  /\ UNCHANGED endVars

\* The process is killed or the machine stops, and the process is started
\* again: the memory is lost, the rows of the store stay.  cmdlog, base and
\* snapPc describe the process that died until RestoreSessions has run.
Crash ==
  /\ mainPc = "listening"
  /\ mainPc'   = "boot"
  /\ sessions' = {}
  /\ heap'     = [s \in SessionIds |-> [Clients |-> {}, State |-> NewState]]
  /\ mu'       = NoLock
  /\ pc'       = [c \in Conns |-> "idle"]
  /\ sidOf'    = [c \in Conns |-> 0]
  /\ bdata'    = [c \in Conns |-> NoData]
  /\ todo'     = [c \in Conns |-> {}]
  /\ timer'    = [c \in Conns |-> NoTimer]
  /\ wrote'    = [c \in Conns |-> <<>>]
  /\ resp'     = NoResp
  /\ joinIdx'  = [c \in Conns |-> 0]
  /\ emptyFor' = [s \in SessionIds |-> 0]
  /\ snaps'    = EmptyMap
  /\ UNCHANGED <<usedIds, store, cmdlog, base, loaded, snapPc>>
  /\ UNCHANGED apiVars
  /\ UNCHANGED recv
  /\ final' = NoFinal
  /\ UNCHANGED reclaimed

\* app.Listen returns and main calls log.Fatal with its result: os.Exit(1)
\* ends the process, and the functions main deferred do not run.  The
\* memory of the process is gone, the rows of the store stay.
ListenReturns ==
  /\ mainPc = "listening"
  /\ mainPc'   = "exited"
  /\ sessions' = {}
  /\ heap'     = [s \in SessionIds |-> [Clients |-> {}, State |-> NewState]]
  /\ mu'       = NoLock
  /\ pc'       = [c \in Conns |-> "idle"]
  /\ sidOf'    = [c \in Conns |-> 0]
  /\ bdata'    = [c \in Conns |-> NoData]
  /\ todo'     = [c \in Conns |-> {}]
  /\ timer'    = [c \in Conns |-> NoTimer]
  /\ wrote'    = [c \in Conns |-> <<>>]
  /\ resp'     = NoResp
  /\ joinIdx'  = [c \in Conns |-> 0]
  /\ emptyFor' = [s \in SessionIds |-> 0]
  /\ snapPc'   = "idle"
  /\ snaps'    = EmptyMap
  /\ UNCHANGED <<usedIds, store, cmdlog, base, loaded>>
  /\ UNCHANGED apiVars
  /\ UNCHANGED recv
  /\ UNCHANGED endVars

(***************************************************************************)
(* SpecRestore: a process with a store.  It starts on the rows an earlier  *)
(* process left, restores, serves one connection, takes snapshots, and is  *)
(* killed and started again, or leaves app.Listen.                         *)
(***************************************************************************)
\* Rows of session_snapshots: written by saveAllSnapshots, written by a
\* version whose State had no AreaTemplates, holding null for the maps, and
\* not of the shape of game.State.
BlobGood     == MarshalState(AddToken(NewState, "t1", Goblin))
BlobOld      == [displayedTokens   |-> EmptyMap,
                 backgroundImgPath |-> "/cave.jpg",
                 showGrid          |-> TRUE,
                 gridUnit          |-> DefaultGridUnit]
BlobNullMaps == [displayedTokens   |-> JsonNull,
                 backgroundImgPath |-> "/cave.jpg",
                 showGrid          |-> TRUE,
                 gridUnit          |-> DefaultGridUnit,
                 areaTemplates     |-> JsonNull]
BlobCorrupt  == [malformed |-> TRUE]

InitialStores ==
  { EmptyMap,
    [s \in {1} |-> BlobNullMaps],
    [s \in SessionIds |-> IF s = 1 THEN BlobGood
                          ELSE IF s = 2 THEN BlobCorrupt ELSE BlobOld] }

RestoreCmds == {CmdAddToken, CmdToggleGrid}

InitRestore ==
  /\ sessions = {}
  /\ heap     = [s \in SessionIds |-> [Clients |-> {}, State |-> NewState]]
  /\ store    \in InitialStores
  /\ usedIds  = DOMAIN store
  /\ mu       = NoLock
  /\ pc       = [c \in Conns |-> "idle"]
  /\ sidOf    = [c \in Conns |-> 0]
  /\ bdata    = [c \in Conns |-> NoData]
  /\ todo     = [c \in Conns |-> {}]
  /\ timer    = [c \in Conns |-> NoTimer]
  /\ wrote    = [c \in Conns |-> <<>>]
  /\ resp     = NoResp
  /\ cmdlog   = [s \in SessionIds |-> <<>>]
  /\ joinIdx  = [c \in Conns |-> 0]
  /\ emptyFor = [s \in SessionIds |-> 0]
  /\ snapPc   = "idle"
  /\ snaps    = EmptyMap
  /\ mainPc   = "boot"
  /\ loaded   = TRUE
  /\ base     = [s \in SessionIds |-> NewState]
  /\ saved    = EmptyMap
  /\ loadRet  = NoLoad
  /\ recv     = [c \in Conns |-> <<>>]
  /\ reclaimed = {}
  /\ final    = NoFinal

Listening == mainPc = "listening"

NextRestore ==
  \/ \E loadOk \in BOOLEAN : RestoreSessions(loadOk)
  \/ Listening /\ CreateSession
  \/ \E c \in Solo, sid \in SessionIds : Listening /\ JoinLock(c, sid)
  \/ \E c \in Solo : Listening /\ JoinAdmit(c)
  \/ \E c \in Solo : Listening /\ JoinSend(c)
  \/ \E c \in Solo, msg \in RestoreCmds :
        Listening /\ TotalCmds < MaxRestoreCmds /\ CmdApply(c, msg, NoUuid)
  \/ \E c \in Solo, x \in Solo : Listening /\ BroadcastWrite(c, x)
  \/ \E c \in Solo : Listening /\ CmdUnlock(c)
  \/ Listening /\ SnapCopy
  \/ \E s \in SessionIds : Listening /\ SnapSave(s, TRUE)
  \/ Listening /\ SnapDone
  \/ Crash
  \/ ListenReturns

SpecRestore == InitRestore /\ [][NextRestore]_vars

(***************************************************************************)
(* SpecSave: a process with a store that may refuse a save.  Two           *)
(* connections, two sessions, no reclamation timer.                        *)
(***************************************************************************)
\* processCommand(msg, st) writes DisplayedTokens, or AreaTemplates, in
\* place: mapassign and mapdelete, the latter also for a key that is absent
\* from a map that has entries.
WritesTokens(msg, st) ==
  /\ DecodeOK(msg.payload)
  /\ \/ msg.type = "add_token"
     \/ msg.type = "move_token"
          /\ FieldId(msg.payload) \in DOMAIN st.DisplayedTokens
     \/ msg.type = "delete_token" /\ st.DisplayedTokens # EmptyMap

WritesTemplates(msg, st) ==
  /\ DecodeOK(msg.payload)
  /\ \/ msg.type = "add_area_template"
     \/ msg.type = "move_area_template"
          /\ FieldId(msg.payload) \in DOMAIN st.AreaTemplates
     \/ msg.type = "delete_area_template" /\ st.AreaTemplates # EmptyMap

\* json.Marshal(snap.state) ranges over a map of the session, without m.mu,
\* at the moment the handler of c writes that map: the Go runtime may end
\* the process ("concurrent map iteration and map write").  The process
\* ends as it does in ListenReturns: no deferred function runs.
MarshalRace(c, msg) ==
  /\ pc[c] = "active"
  /\ mu = NoLock
  /\ snapPc = "saving"
  /\ sidOf[c] \in DOMAIN snaps
  /\ LET st == heap[sidOf[c]].State
         sn == snaps[sidOf[c]]
     IN  \/ sn.tokShared /\ WritesTokens(msg, st)
         \/ sn.tmplShared /\ WritesTemplates(msg, st)
  /\ ListenReturns

MaxSaveCmds == 1

NextSave ==
  \/ Listening /\ CreateSession
  \/ \E c \in Pair, sid \in SessionIds : Listening /\ JoinLock(c, sid)
  \/ \E c \in Pair : Listening /\ JoinAdmit(c)
  \/ \E c \in Pair : Listening /\ JoinSend(c)
  \/ \E c \in Pair, msg \in RestoreCmds :
        Listening /\ TotalCmds < MaxSaveCmds /\ CmdApply(c, msg, NoUuid)
  \/ \E c \in Pair, x \in Pair : Listening /\ BroadcastWrite(c, x)
  \/ \E c \in Pair : Listening /\ CmdUnlock(c)
  \/ \E c \in Pair : Listening /\ ReadFail(c)
  \/ \E c \in Pair : Listening /\ LeaveRemove(c)
  \/ Listening /\ SnapCopy
  \/ \E s \in SessionIds, ok \in BOOLEAN : Listening /\ SnapSave(s, ok)
  \/ Listening /\ SnapDone
  \/ \E c \in Pair, msg \in RestoreCmds :
        TotalCmds < MaxSaveCmds /\ MarshalRace(c, msg)

SpecSave == Init /\ [][NextSave]_vars

(***************************************************************************)
(* SpecFair: two connections with the reclamation timers, under the        *)
(* scheduling of the Go runtime.  A goroutine that can run does run: a     *)
(* handler that holds m.mu goes on to its unlock (a WriteMessage is taken  *)
(* to return), and time passes.  A goroutine waiting in m.mu.Lock() gets   *)
(* the lock if the lock keeps being released: sync.Mutex hands the lock to *)
(* a waiter that has waited for more than 1 ms.                            *)
(***************************************************************************)
MaxFairCmds == 1

NextFair ==
  \/ CreateSession
  \/ \E c \in Pair, sid \in SessionIds : JoinLock(c, sid)
  \/ \E c \in Pair : JoinAdmit(c)
  \/ \E c \in Pair : JoinSend(c)
  \/ \E c \in Pair, msg \in LiveCmds :
        TotalCmds < MaxFairCmds /\ CmdApply(c, msg, NoUuid)
  \/ \E c \in Pair, x \in Pair : BroadcastWrite(c, x)
  \/ \E c \in Pair : CmdUnlock(c)
  \/ \E c \in Pair : ReadFail(c)
  \/ \E c \in Pair : LeaveRemove(c)
  \/ \E c \in Pair : ReclaimFire(c)
  \/ Tick

Fairness ==
  /\ \A c \in Pair : WF_vars(JoinAdmit(c))
  /\ \A c \in Pair : WF_vars(JoinSend(c))
  /\ \A c \in Pair : WF_vars(\E x \in Pair : BroadcastWrite(c, x))
  /\ \A c \in Pair : WF_vars(CmdUnlock(c))
  /\ \A c \in Pair : SF_vars(LeaveRemove(c))
  /\ \A c \in Pair : SF_vars(ReclaimFire(c))
  /\ WF_vars(Tick)

SpecFair == Init /\ [][NextFair]_vars /\ Fairness

(***************************************************************************)
(* SpecGrid: two connections that join, leave and send toggle_grid and     *)
(* add_token.                                                              *)
(***************************************************************************)
MaxGridCmds == 3

NextGrid ==
  \/ CreateSession
  \/ \E c \in Pair, sid \in SessionIds : JoinLock(c, sid)
  \/ \E c \in Pair : JoinAdmit(c)
  \/ \E c \in Pair : JoinSend(c)
  \/ \E c \in Pair, msg \in RestoreCmds :
        TotalCmds < MaxGridCmds /\ CmdApply(c, msg, NoUuid)
  \/ \E c \in Pair, x \in Pair : BroadcastWrite(c, x)
  \/ \E c \in Pair : CmdUnlock(c)
  \/ \E c \in Pair : ReadFail(c)
  \/ \E c \in Pair : LeaveRemove(c)

SpecGrid == Init /\ [][NextGrid]_vars

(***************************************************************************)
(* SpecStore: the Store on its own.  The column state_json is of type      *)
(* JSONB: PostgreSQL parses the text it is given, keeps the JSON value and *)
(* writes the value out in its own layout when the row is selected.  The   *)
(* variable store holds the values of the rows.                            *)
(***************************************************************************)
\* A []byte that is JSON text: the value it denotes, and whether its
\* members are separated by ": " and ", " (the layout of jsonb_out) or by
\* ":" and "," (the layout of encoding/json and of the literals of the
\* tests).  An object with no member has the same text in both layouts.
\* The order of the members, which JSONB changes too, is left out.
TextCompact(v) == [json |-> v, spaced |-> FALSE]

\* The text PostgreSQL returns for a JSONB value.
JsonbOut(v) == [json |-> v, spaced |-> v # EmptyMap]

\* A []byte that is not JSON text.
NotJson == [invalid |-> TRUE]

\* The cast of the parameter $2 to JSONB succeeds.
JsonbValid(data) == "json" \in DOMAIN data

\* The value of a JSON text.
JsonbIn(data) == data.json

\* Store.SaveSnapshot(sessionID, stateJSON): INSERT ... ON CONFLICT
\* (session_id) DO UPDATE SET state_json = EXCLUDED.state_json.  ok is
\* whether the statement reaches the database and is executed in time.
SaveSnapshot(id, data, ok) ==
  /\ IF ok /\ JsonbValid(data)
       THEN /\ store' = MapPut(store, id, JsonbIn(data))
            /\ saved' = MapPut(saved, id, data)
       ELSE UNCHANGED <<store, saved>>
  /\ loadRet' = NoLoad
  /\ UNCHANGED <<sessions, heap, usedIds, mu, pc, sidOf, bdata, todo, timer,
                 wrote, resp, cmdlog, joinIdx, emptyFor, snapPc, snaps>>
  /\ UNCHANGED mainVars
  /\ UNCHANGED recv
  /\ UNCHANGED endVars

\* Store.DeleteSnapshot(sessionID): DELETE ... WHERE session_id = $1; no
\* row with that id is no error.
DeleteSnapshot(id, ok) ==
  /\ IF ok
       THEN /\ store' = MapDelete(store, id)
            /\ saved' = MapDelete(saved, id)
       ELSE UNCHANGED <<store, saved>>
  /\ loadRet' = NoLoad
  /\ UNCHANGED <<sessions, heap, usedIds, mu, pc, sidOf, bdata, todo, timer,
                 wrote, resp, cmdlog, joinIdx, emptyFor, snapPc, snaps>>
  /\ UNCHANGED mainVars
  /\ UNCHANGED recv
  /\ UNCHANGED endVars

\* Store.LoadAllSnapshots(): SELECT session_id, state_json, every row into
\* the map; nil and the error when the query or a row fails.
LoadAllSnapshots(ok) ==
  /\ loadRet' = IF ok
                  THEN [ok |-> TRUE,
                        snapshots |-> [id \in DOMAIN store |-> JsonbOut(store[id])]]
                  ELSE [ok |-> FALSE, snapshots |-> NilMap]
  /\ UNCHANGED <<sessions, heap, usedIds, mu, pc, sidOf, bdata, todo, timer,
                 wrote, resp, cmdlog, joinIdx, emptyFor, snapPc, snaps, store,
                 saved>>
  /\ UNCHANGED mainVars
  /\ UNCHANGED recv
  /\ UNCHANGED endVars

\* The session ids and the data of the tests of the Store, data in the
\* layout of PostgreSQL, an empty object, and data that is no JSON.
StoreData ==
  { TextCompact([showGrid |-> TRUE]),
    TextCompact([showGrid |-> FALSE]),
    JsonbOut([showGrid |-> TRUE]),
    TextCompact(EmptyMap),
    NotJson }

NextStore ==
  \/ \E id \in SessionIds, data \in StoreData, ok \in BOOLEAN :
        SaveSnapshot(id, data, ok)
  \/ \E id \in SessionIds, ok \in BOOLEAN : DeleteSnapshot(id, ok)
  \/ \E ok \in BOOLEAN : LoadAllSnapshots(ok)

SpecStore == Init /\ [][NextStore]_vars

(***************************************************************************)
(* SpecFrame: a process that restores a session with two tokens and two    *)
(* area templates, or none, and serves one connection that sends every     *)
(* kind of command.                                                        *)
(***************************************************************************)
Orc == [Name |-> "Orc", ImgPath |-> "/orc.jpg", X |-> 10, Y |-> 20,
        TokenSize |-> 2]

RichState ==
  [ DisplayedTokens   |-> [k \in {"t1", "t2"} |->
                             IF k = "t1" THEN Goblin ELSE Orc],
    BackgroundImgPath |-> "/cave.jpg",
    ShowGrid          |-> FALSE,
    GridUnit          |-> 48,
    AreaTemplates     |-> [k \in {"a1", "a2"} |->
                             IF k = "a1" THEN Circle ELSE Square] ]

BlobRich == MarshalState(RichState)

CmdAddTokenAgain == [type |-> "add_token",
                     payload |-> [id |-> "t1", token |-> Orc]]
CmdAddTokenNew   == [type |-> "add_token",
                     payload |-> [id |-> "t3", token |-> Orc]]

FrameCmds == SceneCmds \cup {CmdAddTokenAgain, CmdAddTokenNew}

MaxFrameCmds == 2

InitFrame ==
  /\ sessions = {}
  /\ heap     = [s \in SessionIds |-> [Clients |-> {}, State |-> NewState]]
  /\ store    \in {EmptyMap, [s \in {1} |-> BlobRich]}
  /\ usedIds  = DOMAIN store
  /\ mu       = NoLock
  /\ pc       = [c \in Conns |-> "idle"]
  /\ sidOf    = [c \in Conns |-> 0]
  /\ bdata    = [c \in Conns |-> NoData]
  /\ todo     = [c \in Conns |-> {}]
  /\ timer    = [c \in Conns |-> NoTimer]
  /\ wrote    = [c \in Conns |-> <<>>]
  /\ resp     = NoResp
  /\ cmdlog   = [s \in SessionIds |-> <<>>]
  /\ joinIdx  = [c \in Conns |-> 0]
  /\ emptyFor = [s \in SessionIds |-> 0]
  /\ snapPc   = "idle"
  /\ snaps    = EmptyMap
  /\ mainPc   = "boot"
  /\ loaded   = TRUE
  /\ base     = [s \in SessionIds |-> NewState]
  /\ saved    = EmptyMap
  /\ loadRet  = NoLoad
  /\ recv     = [c \in Conns |-> <<>>]
  /\ reclaimed = {}
  /\ final    = NoFinal

NextFrame ==
  \/ RestoreSessions(TRUE)
  \/ Listening /\ CreateSession
  \/ \E c \in Solo, sid \in SessionIds : Listening /\ JoinLock(c, sid)
  \/ \E c \in Solo : Listening /\ JoinAdmit(c)
  \/ \E c \in Solo : Listening /\ JoinSend(c)
  \/ \E c \in Solo, msg \in FrameCmds :
        /\ Listening
        /\ TotalCmds < MaxFrameCmds
        /\ Sendable(msg)
        /\ IF CallsNewString(msg)
             THEN \E u \in NewTemplateId : CmdApply(c, msg, u)
             ELSE CmdApply(c, msg, NoUuid)
  \/ \E c \in Solo, x \in Solo : Listening /\ BroadcastWrite(c, x)
  \/ \E c \in Solo : Listening /\ CmdUnlock(c)

SpecFrame == InitFrame /\ [][NextFrame]_vars

(***************************************************************************)
(* SpecIso: the process of SpecFrame with two connections, which may join  *)
(* different sessions.                                                     *)
(***************************************************************************)
MaxIsoCmds == 1

NextIso ==
  \/ RestoreSessions(TRUE)
  \/ Listening /\ CreateSession
  \/ \E c \in Pair, sid \in SessionIds : Listening /\ JoinLock(c, sid)
  \/ \E c \in Pair : Listening /\ JoinAdmit(c)
  \/ \E c \in Pair : Listening /\ JoinSend(c)
  \/ \E c \in Pair, msg \in FrameCmds :
        /\ Listening
        /\ TotalCmds < MaxIsoCmds
        /\ Sendable(msg)
        /\ IF CallsNewString(msg)
             THEN \E u \in NewTemplateId : CmdApply(c, msg, u)
             ELSE CmdApply(c, msg, NoUuid)
  \/ \E c \in Pair, x \in Pair : Listening /\ BroadcastWrite(c, x)
  \/ \E c \in Pair : Listening /\ CmdUnlock(c)

SpecIso == InitFrame /\ [][NextIso]_vars

(***************************************************************************)
(* SpecEnv: two connections that receive commands, commands processCommand *)
(* drops, and messages that are no command envelope.                       *)
(***************************************************************************)
EnvCmds == {CmdAddToken, CmdUnknown, CmdAddTokenMalformed}

MaxEnvMsgs == 3

\* The messages read so far, on all connections.
TotalRecv == LET RECURSIVE Sum(_)
                 Sum(S) == IF S = {} THEN 0
                           ELSE LET c == CHOOSE c \in S : TRUE
                                IN  Len(recv[c]) + Sum(S \ {c})
             IN  Sum(Conns)

NextEnv ==
  \/ CreateSession
  \/ \E c \in Pair, sid \in SessionIds : JoinLock(c, sid)
  \/ \E c \in Pair : JoinAdmit(c)
  \/ \E c \in Pair : JoinSend(c)
  \/ \E c \in Pair, msg \in EnvCmds :
        TotalRecv < MaxEnvMsgs /\ CmdApply(c, msg, NoUuid)
  \/ \E c \in Pair : TotalRecv < MaxEnvMsgs /\ ReadInvalid(c)
  \/ \E c \in Pair, x \in Pair : BroadcastWrite(c, x)
  \/ \E c \in Pair : CmdUnlock(c)
  \/ \E c \in Pair : ReadFail(c)
  \/ \E c \in Pair : LeaveRemove(c)

SpecEnv == Init /\ [][NextEnv]_vars

(***************************************************************************)
(* SpecLife: the life of the sessions over several runs of the process.    *)
(* Sessions are created, joined by one connection, left and reclaimed; the *)
(* snapshot goroutine saves them; the process ends and starts again with   *)
(* RestoreSessions.  No command is sent.  What is enabled for good         *)
(* happens: the handler and the timers get the lock, time passes, a pass   *)
(* of saveAllSnapshots goes on.                                            *)
(***************************************************************************)
InitLife == InitRestore /\ store = EmptyMap

NextLife ==
  \/ RestoreSessions(TRUE)
  \/ Listening /\ CreateSession
  \/ \E c \in Solo, sid \in SessionIds : Listening /\ JoinLock(c, sid)
  \/ \E c \in Solo : Listening /\ JoinAdmit(c)
  \/ \E c \in Solo : Listening /\ JoinSend(c)
  \/ \E c \in Solo : Listening /\ ReadFail(c)
  \/ \E c \in Solo : Listening /\ LeaveRemove(c)
  \/ \E c \in Solo : Listening /\ ReclaimFire(c)
  \/ Listening /\ Tick
  \/ Listening /\ SnapCopy
  \/ \E s \in SessionIds : Listening /\ SnapSave(s, TRUE)
  \/ Listening /\ SnapDone
  \/ Crash

LifeFairness ==
  /\ WF_vars(RestoreSessions(TRUE))
  /\ \A c \in Solo : WF_vars(Listening /\ JoinAdmit(c))
  /\ \A c \in Solo : WF_vars(Listening /\ JoinSend(c))
  /\ \A c \in Solo : SF_vars(Listening /\ LeaveRemove(c))
  /\ \A c \in Solo : SF_vars(Listening /\ ReclaimFire(c))
  /\ WF_vars(Listening /\ Tick)
  /\ \A s \in SessionIds : WF_vars(Listening /\ SnapSave(s, TRUE))
  /\ WF_vars(Listening /\ SnapDone)

SpecLife == InitLife /\ [][NextLife]_vars /\ LifeFairness

(***************************************************************************)
(* StopPeriodicSnapshots, lines 119-127, and the goroutine of              *)
(* StartPeriodicSnapshots, lines 105-116.                                  *)
(***************************************************************************)
\* close(m.stopSnapshot).  m.store and m.stopSnapshot are not nil: main has
\* called SetStore and StartPeriodicSnapshots.
StopClose ==
  /\ mainPc = "listening"
  /\ final.pc = "none"
  /\ final' = [final EXCEPT !.pc = "closed"]
  /\ UNCHANGED <<sessions, heap, usedIds, mu, pc, sidOf, bdata, todo, timer,
                 wrote, resp, cmdlog, joinIdx, emptyFor>>
  /\ UNCHANGED snapVars
  /\ UNCHANGED mainVars
  /\ UNCHANGED apiVars
  /\ UNCHANGED <<recv, reclaimed>>

\* The select of the goroutine takes <-m.stopSnapshot: return.
SnapStop ==
  /\ snapPc = "idle"
  /\ final.pc # "none"
  /\ snapPc' = "stopped"
  /\ UNCHANGED <<sessions, heap, usedIds, mu, pc, sidOf, bdata, todo, timer,
                 wrote, resp, cmdlog, joinIdx, emptyFor, snaps, store>>
  /\ UNCHANGED mainVars
  /\ UNCHANGED apiVars
  /\ UNCHANGED <<recv, reclaimed, final>>

\* m.saveAllSnapshots() of StopPeriodicSnapshots: lock, copy, unlock.
FinalCopy ==
  /\ final.pc = "closed"
  /\ mu = NoLock
  /\ final' = [pc    |-> "saving",
               snaps |-> [s \in sessions |->
                            [state |-> heap[s].State, orig |-> heap[s].State,
                             tokShared |-> TRUE, tmplShared |-> TRUE]],
               done  |-> {}]
  /\ UNCHANGED <<sessions, heap, usedIds, mu, pc, sidOf, bdata, todo, timer,
                 wrote, resp, cmdlog, joinIdx, emptyFor>>
  /\ UNCHANGED snapVars
  /\ UNCHANGED mainVars
  /\ UNCHANGED apiVars
  /\ UNCHANGED <<recv, reclaimed>>

\* The State that json.Marshal reads in the final pass.
FinalView(s) ==
  [final.snaps[s].state EXCEPT
     !.DisplayedTokens =
        IF final.snaps[s].tokShared THEN heap[s].State.DisplayedTokens ELSE @,
     !.AreaTemplates =
        IF final.snaps[s].tmplShared THEN heap[s].State.AreaTemplates ELSE @]

\* One iteration of the loop of the final pass.
FinalSave(s, ok) ==
  /\ final.pc = "saving"
  /\ s \in DOMAIN final.snaps
  /\ store' = IF ok THEN MapPut(store, s, MarshalState(FinalView(s))) ELSE store
  /\ final' = [final EXCEPT
                 !.snaps = MapDelete(@, s),
                 !.done  = IF ok THEN @ \cup {s} ELSE @]
  /\ UNCHANGED <<sessions, heap, usedIds, mu, pc, sidOf, bdata, todo, timer,
                 wrote, resp, cmdlog, joinIdx, emptyFor, snapPc, snaps>>
  /\ UNCHANGED mainVars
  /\ UNCHANGED apiVars
  /\ UNCHANGED <<recv, reclaimed>>

\* The final pass is over: StopPeriodicSnapshots returns.
FinalDone ==
  /\ final.pc = "saving"
  /\ final.snaps = EmptyMap
  /\ final' = [final EXCEPT !.pc = "returned"]
  /\ UNCHANGED <<sessions, heap, usedIds, mu, pc, sidOf, bdata, todo, timer,
                 wrote, resp, cmdlog, joinIdx, emptyFor>>
  /\ UNCHANGED snapVars
  /\ UNCHANGED mainVars
  /\ UNCHANGED apiVars
  /\ UNCHANGED <<recv, reclaimed>>

(***************************************************************************)
(* SpecStop: a process whose StopPeriodicSnapshots is called while one     *)
(* connection sends commands and the snapshot goroutine runs.              *)
(***************************************************************************)
MaxStopCmds == 2

NextStop ==
  \/ CreateSession
  \/ \E c \in Solo, sid \in SessionIds : JoinLock(c, sid)
  \/ \E c \in Solo : JoinAdmit(c)
  \/ \E c \in Solo : JoinSend(c)
  \/ \E c \in Solo, msg \in RestoreCmds :
        TotalCmds < MaxStopCmds /\ CmdApply(c, msg, NoUuid)
  \/ \E c \in Solo, x \in Solo : BroadcastWrite(c, x)
  \/ \E c \in Solo : CmdUnlock(c)
  \/ SnapCopy
  \/ \E s \in SessionIds, ok \in BOOLEAN : SnapSave(s, ok)
  \/ SnapDone
  \/ SnapStop
  \/ StopClose
  \/ FinalCopy
  \/ \E s \in SessionIds, ok \in BOOLEAN : FinalSave(s, ok)
  \/ FinalDone

SpecStop == Init /\ [][NextStop]_vars

(***************************************************************************)
(* GetSession (GET /session/:id), and SpecLock: everything that takes      *)
(* m.mu, with two connections.                                             *)
(***************************************************************************)
\* Lock, look m.sessions[id] up, unlock; 404 or 200 with the id.
GetSession(id) ==
  /\ mu = NoLock
  /\ resp' = [status |-> IF id \in sessions THEN 200 ELSE 404, id |-> id]
  /\ UNCHANGED <<sessions, heap, usedIds, mu, pc, sidOf, bdata, todo, timer,
                 wrote, cmdlog, joinIdx, emptyFor>>
  /\ UNCHANGED snapVars
  /\ UNCHANGED mainVars
  /\ UNCHANGED apiVars
  /\ UNCHANGED recv
  /\ UNCHANGED endVars

MaxLockCmds == 1

NextLock ==
  \/ CreateSession
  \/ \E id \in SessionIds : GetSession(id)
  \/ \E c \in Pair, sid \in SessionIds : JoinLock(c, sid)
  \/ \E c \in Pair : JoinAdmit(c)
  \/ \E c \in Pair : JoinSend(c)
  \/ \E c \in Pair :
        TotalCmds < MaxLockCmds /\ CmdApply(c, CmdAddToken, NoUuid)
  \/ \E c \in Pair, x \in Pair : BroadcastWrite(c, x)
  \/ \E c \in Pair : CmdUnlock(c)
  \/ \E c \in Pair : ReadFail(c)
  \/ \E c \in Pair : LeaveRemove(c)
  \/ \E c \in Pair : ReclaimFire(c)
  \/ Tick
  \/ SnapCopy
  \/ \E s \in SessionIds : SnapSave(s, TRUE)
  \/ SnapDone

SpecLock == Init /\ [][NextLock]_vars

(***************************************************************************)
(* Vocabulary of the properties.                                           *)
(***************************************************************************)
Clients(s) == heap[s].Clients

\* The connection has been added to session.Clients and not yet removed.
Joined(c) == sidOf[c] \in SessionIds /\ c \in Clients(sidOf[c])

\* The messages written to a connection, in order.
Msgs(c) == [i \in 1 .. Len(wrote[c]) |-> wrote[c][i].msg]

Last(q) == q[Len(q)]

\* The Scene State of a session after the first k commands of its log.
RECURSIVE StateAfter(_, _)
StateAfter(s, k) ==
  IF k = 0 THEN base[s]
  ELSE processCommand(cmdlog[s][k].msg, StateAfter(s, k - 1), cmdlog[s][k].uuid)

\* The connection whose handler is between the start of processCommand and
\* the end of broadcastState.
InFlight(c) == pc[c] = "broadcast"

(***************************************************************************)
(* C1: a session never has more than MaxUsersPerSession connections, and  *)
(* a join is refused only when the session has MaxUsersPerSession          *)
(* connections at the moment of the check, admitted only when it has       *)
(* fewer.                                                                  *)
(***************************************************************************)
C1_Capacity ==
  /\ [](\A s \in SessionIds : Cardinality(Clients(s)) <= MaxUsersPerSession)
  /\ [][\A c \in Conns :
          pc[c] = "admitting" =>
            /\ pc'[c] = "rejecting" =>
                 /\ Cardinality(Clients(sidOf[c])) >= MaxUsersPerSession
                 /\ heap' = heap
            /\ pc'[c] = "sending" =>
                 /\ Cardinality(Clients(sidOf[c])) < MaxUsersPerSession
                 /\ heap'[sidOf[c]].Clients = Clients(sidOf[c]) \cup {c}]_vars

\* A session is full and one more connection has just been refused.
C1_Witness ==
  \E c \in Conns :
    /\ pc[c] = "rejecting"
    /\ Cardinality(Clients(sidOf[c])) = MaxUsersPerSession
    /\ c \notin Clients(sidOf[c])

(***************************************************************************)
(* C2: the first message written to a connection that joins is the         *)
(* state_update of the session's current Scene State, nothing is written   *)
(* to it before, and that state is the one last written to every           *)
(* connection that had joined before.                                      *)
(***************************************************************************)
C2_LateJoinSync ==
  /\ [](\A c \in Conns :
          Joined(c) =>
            IF pc[c] = "sending"
              THEN wrote[c] = << >>
              ELSE /\ Len(wrote[c]) >= 1
                   /\ wrote[c][1] =
                        [msg |-> StateUpdate(StateAfter(sidOf[c], joinIdx[c])),
                         ok  |-> TRUE])
  /\ [][\A c \in Conns :
          pc[c] = "sending" /\ pc'[c] = "active" =>
            /\ wrote'[c] = << [msg |-> StateUpdate(heap[sidOf[c]].State),
                               ok  |-> TRUE] >>
            /\ \A x \in Clients(sidOf[c]) \ {c} :
                 Last(wrote[x]).msg = wrote'[c][1].msg]_vars

\* A connection has joined a session that already has a participant and a
\* token, and has been sent its first message.
C2_Witness ==
  \E c \in Conns :
    /\ pc[c] = "active"
    /\ joinIdx[c] >= 1
    /\ Len(wrote[c]) = 1
    /\ wrote[c][1].msg.payload.displayedTokens # EmptyMap
    /\ Clients(sidOf[c]) # {c}

(***************************************************************************)
(* C3: a state_update broadcast for a command received on a connection of  *)
(* one session is written only to members of that session's Clients; no    *)
(* connection of another session is written to.                            *)
(***************************************************************************)
C3_Isolation ==
  /\ [](\A c \in Conns : InFlight(c) => todo[c] \subseteq Clients(sidOf[c]))
  /\ [][\A c \in Conns :
          InFlight(c) =>
            \A x \in Conns :
              wrote'[x] # wrote[x] /\ Last(wrote'[x]).msg.type = "state_update" =>
                /\ sidOf[x] = sidOf[c]
                /\ x \in Clients(sidOf[c])
                /\ Len(wrote'[x]) = Len(wrote[x]) + 1
                /\ Last(wrote'[x]).msg = StateUpdate(heap[sidOf[c]].State)]_vars

\* Two sessions have a participant each, a command of one of them has been
\* broadcast, the participant of the other has only its initial state.
C3_Witness ==
  \E c, x \in Conns :
    /\ Joined(c) /\ Joined(x)
    /\ sidOf[c] # sidOf[x]
    /\ pc[c] = "broadcast" /\ todo[c] = {}
    /\ Len(wrote[c]) = 2
    /\ Len(wrote[x]) = 1

(***************************************************************************)
(* C4: a command envelope is applied to the session's state and then the   *)
(* full state after the command is written exactly once to every member of *)
(* the session's Clients, the sender included.                             *)
(***************************************************************************)
\* The writes a member of a session has had: its initial state and one per
\* command applied since it joined, less the one of a broadcast under way
\* that has not reached it yet.
WritesDue(x) ==
  1 + Len(cmdlog[sidOf[x]]) - joinIdx[x]
    - (IF \E c \in Conns : InFlight(c) /\ x \in todo[c] THEN 1 ELSE 0)

C4_ApplyThenBroadcast ==
  /\ [](\A x \in Conns :
          Joined(x) /\ pc[x] # "sending" => Len(wrote[x]) = WritesDue(x))
  /\ [](\A c \in Conns :
          InFlight(c) =>
            /\ bdata[c] = StateUpdate(heap[sidOf[c]].State)
            /\ \A x \in Clients(sidOf[c]) \ todo[c] :
                 Last(wrote[x]).msg = bdata[c])
  /\ [][\A c \in Conns :
          pc[c] = "active" /\ pc'[c] = "broadcast" =>
            /\ heap'[sidOf[c]].State =
                 processCommand(Last(cmdlog'[sidOf[c]]).msg,
                                heap[sidOf[c]].State,
                                Last(cmdlog'[sidOf[c]]).uuid)
            /\ c \in todo'[c]
            /\ todo'[c] = Clients(sidOf[c])
            /\ wrote' = wrote]_vars

\* A command has changed the state and its broadcast has reached the sender
\* and the other member of the session.
C4_Witness ==
  \E c \in Conns :
    /\ InFlight(c) /\ todo[c] = {}
    /\ Cardinality(Clients(sidOf[c])) = MaxUsersPerSession
    /\ heap[sidOf[c]].State # NewState
    /\ \A x \in Clients(sidOf[c]) :
         Len(wrote[x]) = 2 /\ wrote[x][2].ok /\ wrote[x][2].msg = bdata[c]

(***************************************************************************)
(* C5: two connections of one session are written the same sequence of     *)
(* state_update payloads from the moment both have joined: the messages of *)
(* the later joiner are, one for one, the messages the earlier joiner is   *)
(* written from that point of the session's command order on.              *)
(***************************************************************************)
SameSession(x, y) ==
  /\ x # y
  /\ sidOf[x] = sidOf[y]
  /\ Len(wrote[x]) >= 1 /\ wrote[x][1].msg.type = "state_update"
  /\ Len(wrote[y]) >= 1 /\ wrote[y][1].msg.type = "state_update"

C5_TotalOrder ==
  \A x, y \in Conns :
    SameSession(x, y) /\ joinIdx[x] <= joinIdx[y] =>
      LET d == joinIdx[y] - joinIdx[x] IN
        \A i \in 1 .. Len(wrote[y]) :
          i + d <= Len(wrote[x]) => wrote[y][i].msg = wrote[x][i + d].msg

\* Two members of a session have each sent a command, and each has been
\* written its initial state and the two different states that followed.
C5_Witness ==
  \E x, y \in Conns :
    /\ SameSession(x, y)
    /\ Joined(x) /\ Joined(y)
    /\ Len(cmdlog[sidOf[x]]) >= 2
    /\ \E i, j \in 1 .. Len(cmdlog[sidOf[x]]) :
         cmdlog[sidOf[x]][i].by = x /\ cmdlog[sidOf[x]][j].by = y
    /\ Len(wrote[x]) >= 3 /\ Len(wrote[y]) >= 3
    /\ wrote[x][2].msg # wrote[x][3].msg
    /\ mu = NoLock

(***************************************************************************)
(* C7: every Scene State written to a connection is the state after a      *)
(* whole prefix of the session's command order, the session's state is the *)
(* state after all of it, and a move_token of an existing id leaves the    *)
(* token at exactly the (x, y) of that command, so that of two moves the   *)
(* one applied last decides.                                               *)
(***************************************************************************)
PrefixStates(s) ==
  {MarshalState(StateAfter(s, k)) : k \in 0 .. Len(cmdlog[s])}

IsMove(e) == e.msg.type = "move_token" /\ DecodeOK(e.msg.payload)

C7_WholeCommands ==
  /\ \A s \in SessionIds : heap[s].State = StateAfter(s, Len(cmdlog[s]))
  /\ \A c \in Conns : \A i \in 1 .. Len(wrote[c]) :
       wrote[c][i].msg.type = "state_update" =>
         wrote[c][i].msg.payload \in PrefixStates(sidOf[c])
  /\ \A s \in SessionIds : \A k \in 1 .. Len(cmdlog[s]) :
       LET e      == cmdlog[s][k]
           id     == FieldId(e.msg.payload)
           before == StateAfter(s, k - 1).DisplayedTokens
           after  == StateAfter(s, k).DisplayedTokens
       IN  IsMove(e) /\ id \in DOMAIN before =>
             after = [before EXCEPT ![id] =
                        [@ EXCEPT !.X = e.msg.payload.x, !.Y = e.msg.payload.y]]

\* Two members of a session have moved the same token to different places,
\* one right after the other, and both have been written the final state.
C7_Witness ==
  \E s \in SessionIds : \E k \in 2 .. Len(cmdlog[s]) :
    /\ k = Len(cmdlog[s])
    /\ IsMove(cmdlog[s][k - 1]) /\ IsMove(cmdlog[s][k])
    /\ cmdlog[s][k - 1].by # cmdlog[s][k].by
    /\ cmdlog[s][k - 1].msg # cmdlog[s][k].msg
    /\ "t1" \in DOMAIN StateAfter(s, k - 2).DisplayedTokens
    /\ mu = NoLock
    /\ Cardinality(Clients(s)) = 2
    /\ \A x \in Clients(s) :
         /\ Last(wrote[x]).ok
         /\ Last(wrote[x]).msg.payload.displayedTokens["t1"].x = cmdlog[s][k].msg.payload.x
         /\ Last(wrote[x]).msg.payload.displayedTokens["t1"].y = cmdlog[s][k].msg.payload.y

(***************************************************************************)
(* C8: a session leaves the registry only when its Clients has been empty  *)
(* for the whole grace period before.                                      *)
(***************************************************************************)
C8_GraceBeforeRemoval ==
  [][\A s \in SessionIds :
       s \in sessions /\ s \notin sessions' => emptyFor[s] >= Grace]_vars

(***************************************************************************)
(* C9: a reclamation check that finds a connection in the session leaves   *)
(* the registry and the session as they are; it removes the session only   *)
(* if its Clients is empty at that instant; no session is removed while it *)
(* has a connection.                                                       *)
(***************************************************************************)
C9_RecheckAtExpiry ==
  /\ [](\A s \in SessionIds : Clients(s) # {} => s \in sessions)
  /\ [][\A c \in Conns :
          timer[c] = 0 /\ timer'[c] = Fired =>
            /\ heap' = heap
            /\ sessions' = IF sidOf[c] \in sessions /\ Clients(sidOf[c]) = {}
                             THEN sessions \ {sidOf[c]}
                             ELSE sessions]_vars
  /\ [][\A s \in SessionIds :
          s \in sessions /\ s \notin sessions' =>
            Clients(s) = {} /\ heap' = heap]_vars

\* The timer of an earlier disconnect has fired while a connection was in
\* the session, and the session is still registered.
C9_Witness ==
  \E c \in Conns :
    /\ timer[c] = Fired
    /\ sidOf[c] \in sessions
    /\ Clients(sidOf[c]) # {}

(***************************************************************************)
(* C10: CreateSession answers 429 and changes nothing exactly when the     *)
(* registry holds MaxSessions sessions or more; otherwise it answers 201   *)
(* with an id that was not in the registry, now registered with no client  *)
(* and the state of NewState.                                              *)
(***************************************************************************)
C10_CreateSession ==
  [][resp' # resp =>
       IF Cardinality(sessions) >= MaxSessions
         THEN /\ resp'.status = 429
              /\ sessions' = sessions
              /\ heap' = heap
         ELSE /\ resp'.status = 201
              /\ resp'.id \notin sessions
              /\ resp'.id \notin usedIds
              /\ sessions' = sessions \cup {resp'.id}
              /\ heap' = [heap EXCEPT ![resp'.id] =
                            [Clients |-> {}, State |-> NewState]]]_vars

\* The registry is full and the last request has been refused, after a
\* session that an earlier request created has been joined.
C10_Witness ==
  /\ resp.status = 429
  /\ Cardinality(sessions) = MaxSessions
  /\ \E c \in Conns : Joined(c) /\ pc[c] = "active"

(***************************************************************************)
(* C6: whoever is inside a section of code bracketed by m.mu holds it, so  *)
(* at most one handler is between the start of processCommand and the end  *)
(* of broadcastState; while one is, no other command is applied, no        *)
(* connection is added to or removed from any session, no reclamation      *)
(* check runs and saveAllSnapshots takes no copy.                          *)
(***************************************************************************)
InSection(c) == pc[c] \in {"admitting", "sending", "broadcast"}

Refused(x) == Len(wrote[x]) >= 1 /\ wrote[x][1].msg = SessionFull

C11_FullSessionRefused ==
  /\ [](\A x \in Conns :
          /\ pc[x] = "rejecting" =>
                wrote[x] = <<>> /\ timer[x] = NoTimer /\ ~Joined(x)
          /\ Refused(x) =>
                /\ wrote[x] = <<[msg |-> SessionFull, ok |-> TRUE]>>
                /\ pc[x] = "done"
                /\ timer[x] = NoTimer
                /\ ~Joined(x))
  /\ [][\A x \in Conns :
          /\ pc[x] = "admitting" /\ pc'[x] # "admitting"
              /\ Cardinality(Clients(sidOf[x])) >= MaxUsersPerSession =>
                pc'[x] = "rejecting" /\ heap' = heap /\ wrote' = wrote
          /\ pc[x] = "rejecting" /\ pc'[x] # "rejecting" =>
                /\ pc'[x] = "done"
                /\ wrote'[x] = <<[msg |-> SessionFull, ok |-> TRUE]>>
                /\ \A y \in Conns \ {x} : wrote'[y] = wrote[y]
                /\ heap' = heap /\ sessions' = sessions
                /\ timer' = timer /\ cmdlog' = cmdlog]_vars

\* A join has been refused by a session that has its full set of clients
\* and has applied a command.
C11_Witness ==
  \E x \in Conns :
    /\ Refused(x) /\ pc[x] = "done"
    /\ Cardinality(Clients(sidOf[x])) = MaxUsersPerSession
    /\ cmdlog[sidOf[x]] # <<>>

(***************************************************************************)
(* C12: a join whose session id is not a key of m.sessions is closed with  *)
(* no message written to it, then or later; it changes no registry entry,  *)
(* no Clients set, no State, writes to no connection and starts no timer.  *)
(***************************************************************************)
NotFound(x) == pc[x] = "done" /\ wrote[x] = <<>>

C12_UnknownSessionClosed ==
  /\ [](\A x \in Conns : NotFound(x) => ~Joined(x) /\ timer[x] = NoTimer)
  /\ [][\A x \in Conns :
          /\ pc[x] = "idle" /\ pc'[x] # "idle" /\ sidOf'[x] \notin sessions =>
                /\ pc'[x] = "done"
                /\ wrote' = wrote
                /\ sessions' = sessions /\ heap' = heap
                /\ mu' = NoLock /\ timer' = timer /\ cmdlog' = cmdlog
          /\ NotFound(x) => NotFound(x)']_vars

\* A join with an unknown id has been closed while the registry holds a
\* session with a client in it, and a command has been broadcast since.
C12_Witness ==
  \E x \in Conns :
    /\ NotFound(x) /\ sidOf[x] \notin sessions
    /\ \E y \in Conns : Joined(y) /\ Len(wrote[y]) >= 2
                          /\ joinIdx[y] < Len(cmdlog[sidOf[y]])

(***************************************************************************)
(* C13: move_token and delete_token with an id that is not a key of        *)
(* DisplayedTokens, move_area_template and delete_area_template with an id *)
(* that is not a key of AreaTemplates, leave the whole State as it was,    *)
(* and so does applying the same command once more.                        *)
(***************************************************************************)
\* The step applies a command to session s.
Applies(s) == Len(cmdlog'[s]) = Len(cmdlog[s]) + 1

AbsentId(msg, st) ==
  /\ DecodeOK(msg.payload)
  /\ \/ /\ msg.type \in {"move_token", "delete_token"}
        /\ FieldId(msg.payload) \notin DOMAIN st.DisplayedTokens
     \/ /\ msg.type \in {"move_area_template", "delete_area_template"}
        /\ FieldId(msg.payload) \notin DOMAIN st.AreaTemplates

C13_AbsentIdNoOp ==
  [][\A s \in SessionIds :
       Applies(s) /\ AbsentId(Last(cmdlog'[s]).msg, heap[s].State) =>
         /\ heap'[s].State = heap[s].State
         /\ processCommand(Last(cmdlog'[s]).msg, heap'[s].State,
                           Last(cmdlog'[s]).uuid) = heap[s].State]_vars

\* A session that holds a token and no area template has just applied a
\* move or a delete of another token or of an area template.
C13_Witness ==
  \E s \in sessions :
    /\ Len(cmdlog[s]) = 2
    /\ cmdlog[s][1].msg = CmdAddToken
    /\ cmdlog[s][2].msg \in {CmdMoveTokenAbsent, CmdDeleteTokenAbsent,
                             CmdMoveTemplateAbsent, CmdDeleteTemplateAbsent}
    /\ DOMAIN heap[s].State.DisplayedTokens = {"t1"}
    /\ \E c \in Conns : Len(wrote[c]) = 3

(***************************************************************************)
(* C14: a command of a type processCommand does not know, or whose payload *)
(* does not decode into the struct of its type, changes no session; its    *)
(* handler goes on to broadcast, returns to reading, and stays a client of *)
(* its session.                                                            *)
(***************************************************************************)
PayloadTypes ==
  {"add_token", "move_token", "delete_token", "change_background",
   "add_area_template", "move_area_template", "delete_area_template"}

KnownTypes ==
  PayloadTypes \cup {"clear_tokens", "toggle_grid", "clear_area_templates"}

Dropped(msg) ==
  \/ msg.type \notin KnownTypes
  \/ msg.type \in PayloadTypes /\ ~DecodeOK(msg.payload)

C14_MalformedDropped ==
  /\ [][\A s \in SessionIds :
          Applies(s) /\ Dropped(Last(cmdlog'[s]).msg) =>
            /\ heap' = heap
            /\ sessions' = sessions
            /\ pc'[Last(cmdlog'[s]).by] = "broadcast"
            /\ bdata'[Last(cmdlog'[s]).by] = StateUpdate(heap[s].State)]_vars
  /\ [][\A c \in Conns :
          pc[c] = "broadcast" /\ pc'[c] # "broadcast" =>
            pc'[c] = "active" /\ heap' = heap /\ c \in Clients(sidOf[c])]_vars

\* After a command of an unknown type or with an undecodable payload the
\* same connection has sent add_token, and the token is in the state.
C14_Witness ==
  \E s \in sessions :
    /\ Len(cmdlog[s]) = 2
    /\ Dropped(cmdlog[s][1].msg)
    /\ cmdlog[s][2].msg = CmdAddToken
    /\ cmdlog[s][2].by = cmdlog[s][1].by
    /\ DOMAIN heap[s].State.DisplayedTokens = {"t1"}
    /\ pc[cmdlog[s][1].by] = "active"

(***************************************************************************)
(* C15: add_area_template with an empty id adds exactly one entry to       *)
(* AreaTemplates, under a non-empty key that was not a key before, and     *)
(* leaves every other entry as it was; with a non-empty id it stores the   *)
(* template under exactly that id.  Nothing else in the State changes.     *)
(***************************************************************************)
C15_AddAreaTemplate ==
  [][\A s \in SessionIds :
       (/\ Applies(s)
        /\ Last(cmdlog'[s]).msg.type = "add_area_template"
        /\ DecodeOK(Last(cmdlog'[s]).msg.payload)) =>
         LET p    == Last(cmdlog'[s]).msg.payload
             old  == heap[s].State.AreaTemplates
             new  == heap'[s].State.AreaTemplates
             At(k) == /\ DOMAIN new = DOMAIN old \cup {k}
                      /\ new[k] = FieldTemplate(p)
                      /\ \A j \in DOMAIN old \ {k} : new[j] = old[j]
         IN  /\ [heap'[s].State EXCEPT !.AreaTemplates = old] = heap[s].State
             /\ IF FieldId(p) = ""
                  THEN /\ Cardinality(DOMAIN new) = Cardinality(DOMAIN old) + 1
                       /\ \E k \in DOMAIN new :
                            k # "" /\ k \notin DOMAIN old /\ At(k)
                  ELSE At(FieldId(p))]_vars

\* Two add_area_template commands with an empty id have left two entries.
C15_Witness ==
  \E s \in sessions :
    /\ Len(cmdlog[s]) = 2
    /\ cmdlog[s][1].msg = CmdAddTemplateAuto
    /\ cmdlog[s][2].msg = CmdAddTemplateAuto
    /\ Cardinality(DOMAIN heap[s].State.AreaTemplates) = 2

(***************************************************************************)
(* C16: the blob a save pass stores for a session is the serialisation of  *)
(* the State the session had at the instant the pass copied it; commands   *)
(* applied after the copy are not in the blob.                             *)
(***************************************************************************)
C16_PointInTime ==
  [][\A s \in SessionIds :
       (/\ snapPc = "saving"
        /\ s \in DOMAIN snaps /\ s \notin DOMAIN snaps'
        /\ store' # store) =>
         store'[s] = MarshalState(snaps[s].orig)]_vars

(***************************************************************************)
(* C17: what a save pass stores for a session decodes, with the map        *)
(* defaults of RestoreSessions, to the State the pass serialised, field by *)
(* field; RestoreSessions inserts every stored session with exactly the    *)
(* decoded State, and its maps are maps, empty where they were empty.      *)
(***************************************************************************)
Boots == mainPc = "boot" /\ mainPc' = "listening"

C17_RoundTrip ==
  /\ [][\A s \in SessionIds :
          (/\ snapPc = "saving" /\ mainPc' = "listening"
           /\ s \in DOMAIN snaps /\ s \notin DOMAIN snaps') =>
            /\ s \in DOMAIN store'
            /\ EnsureMaps(UnmarshalState(store'[s])) = SnapView(s)]_vars
  /\ [][Boots /\ loaded' =>
          \A s \in DOMAIN store :
            DecodeOK(store[s]) =>
              /\ s \in sessions'
              /\ heap'[s].State = EnsureMaps(UnmarshalState(store[s]))
              /\ heap'[s].State.DisplayedTokens # NilMap
              /\ heap'[s].State.AreaTemplates # NilMap]_vars

\* A session that received toggle_grid and add_token, was saved and was
\* lost with its process is in the registry of the next process with the
\* token, the grid off and an empty AreaTemplates.
C17_Witness ==
  \E s \in sessions :
    /\ mainPc = "listening"
    /\ cmdlog[s] = <<>>
    /\ heap[s].State = AddToken(ToggleGrid(NewState), "t1", Goblin)
    /\ heap[s].State.AreaTemplates = EmptyMap
    /\ s \in DOMAIN store /\ store[s] = MarshalState(heap[s].State)

(***************************************************************************)
(* C18: when main leaves app.Listen the store holds, for every session of  *)
(* the registry, a row that restores to the State the session has: a final *)
(* save pass has run.                                                      *)
(***************************************************************************)
C18_FinalSave ==
  [][mainPc = "listening" /\ mainPc' = "exited" =>
       \A s \in sessions :
         /\ s \in DOMAIN store'
         /\ DecodeOK(store'[s])
         /\ EnsureMaps(UnmarshalState(store'[s])) = heap[s].State]_vars

(***************************************************************************)
(* C19: a session restored after the process was lost between two save     *)
(* passes has a State that the session had at some instant before: its     *)
(* base State with a prefix of the commands it received.                   *)
(***************************************************************************)
C19_RestoredStateWasHeld ==
  [][Boots /\ snapPc = "idle" =>
       \A s \in sessions' :
         cmdlog[s] # <<>> =>
           \E k \in 0 .. Len(cmdlog[s]) : heap'[s].State = StateAfter(s, k)]_vars

(***************************************************************************)
(* C20: when LoadAllSnapshots fails RestoreSessions leaves the registry as *)
(* it is.  Otherwise every row that decodes becomes a session under its id *)
(* with no client and the State of the row, a map that the row lacks or    *)
(* holds as null being an empty map; a row that does not decode becomes no *)
(* session, and the other rows are restored all the same.                  *)
(***************************************************************************)
HasMap(b, member) == member \in DOMAIN b /\ b[member] # JsonNull

C20_RestoreSessions ==
  [][Boots =>
       IF ~loaded'
         THEN sessions' = sessions /\ heap' = heap
         ELSE \A s \in SessionIds :
                IF s \in DOMAIN store /\ DecodeOK(store[s])
                  THEN LET b  == store[s]
                           st == heap'[s].State
                       IN  /\ s \in sessions'
                           /\ heap'[s].Clients = {}
                           /\ st.DisplayedTokens # NilMap
                           /\ st.AreaTemplates # NilMap
                           /\ IF HasMap(b, "displayedTokens")
                                THEN [k \in DOMAIN st.DisplayedTokens |->
                                        JsonToken(st.DisplayedTokens[k])]
                                       = b.displayedTokens
                                ELSE st.DisplayedTokens = EmptyMap
                           /\ IF HasMap(b, "areaTemplates")
                                THEN [k \in DOMAIN st.AreaTemplates |->
                                        JsonTemplate(st.AreaTemplates[k])]
                                       = b.areaTemplates
                                ELSE st.AreaTemplates = EmptyMap
                           /\ st.BackgroundImgPath = b.backgroundImgPath
                           /\ st.ShowGrid = b.showGrid
                           /\ st.GridUnit = b.gridUnit
                  ELSE /\ s \in sessions' <=> s \in sessions
                       /\ heap'[s] = heap[s]]_vars

\* The store held a row that decodes, a row that does not and a row with
\* no areaTemplates: the first and the last are sessions, the last with an
\* empty AreaTemplates.
C20_Witness ==
  /\ mainPc = "listening" /\ loaded
  /\ DOMAIN store = SessionIds /\ store[2] = BlobCorrupt /\ store[3] = BlobOld
  /\ sessions = {1, 3}
  /\ heap[1].State.DisplayedTokens = [k \in {"t1"} |-> Goblin]
  /\ heap[3].State.AreaTemplates = EmptyMap
  /\ \A s \in SessionIds : cmdlog[s] = <<>>

(***************************************************************************)
(* C21: an iteration of the save loop takes one session off the pass and   *)
(* leaves the others on it, whether SaveSnapshot succeeds or fails; the    *)
(* pass ends only when every copied session has had its iteration.  The    *)
(* iteration writes at most the row of its session and changes no session, *)
(* no client set, no connection, no lock and no message; a handler that    *)
(* has read a command can apply it whatever the store did.                 *)
(***************************************************************************)
SaveIteration ==
  /\ snapPc = "saving"
  /\ mainPc' = "listening"
  /\ DOMAIN snaps' # DOMAIN snaps

C21_SaveFailureIsolated ==
  /\ [][SaveIteration =>
          \E s \in DOMAIN snaps :
            /\ DOMAIN snaps' = DOMAIN snaps \ {s}
            /\ \A o \in DOMAIN snaps' : snaps'[o] = snaps[o]
            /\ snapPc' = "saving"
            /\ \/ store' = store
               \/ store' = MapPut(store, s, MarshalState(SnapView(s)))
            /\ sessions' = sessions
            /\ heap' = heap
            /\ pc' = pc
            /\ mu' = mu
            /\ wrote' = wrote
            /\ cmdlog' = cmdlog]_vars
  /\ [][snapPc = "saving" /\ snapPc' = "idle" /\ mainPc' = "listening" =>
          snaps = EmptyMap]_vars
  /\ [](\A c \in Pair :
          Listening /\ pc[c] = "active" /\ mu = NoLock =>
            ENABLED CmdApply(c, CmdToggleGrid, NoUuid))

\* Sessions 1 and 2 were copied by the pass under way; SaveSnapshot failed
\* for session 1, which has no row, session 2 is still on the pass, and a
\* handler of session 1 is broadcasting the command it has applied.
C21_Witness ==
  /\ Listening
  /\ snapPc = "saving"
  /\ DOMAIN snaps = {2}
  /\ 1 \in sessions /\ 1 \notin DOMAIN store
  /\ \E c \in Pair :
       /\ sidOf[c] = 1 /\ pc[c] = "broadcast"
       /\ bdata[c] = StateUpdate(heap[1].State)
       /\ cmdlog[1] # <<>>

(***************************************************************************)
(* C22: a joined connection whose read has failed is closed at once, and   *)
(* the step that ends its handler takes it out of the client set of its    *)
(* session; from then on it is in no client set and nothing is written to  *)
(* it; and every connection whose read has failed does get removed.        *)
(***************************************************************************)
InAnySet(c) == \E s \in SessionIds : c \in heap[s].Clients

WasClient(c) ==
  /\ pc[c] = "done"
  /\ wrote[c] # <<>>
  /\ wrote[c][1].msg.type = "state_update"

LeftEmpty(s) ==
  /\ s \in sessions
  /\ heap[s].Clients = {}
  /\ \E c \in Conns : sidOf[c] = s /\ WasClient(c)

DefaultPayload ==
  [ displayedTokens   |-> EmptyMap,
    backgroundImgPath |-> "/assets/default/maps/tavern.jpg",
    showGrid          |-> TRUE,
    gridUnit          |-> 96,
    areaTemplates     |-> EmptyMap ]

C24_DefaultThenAddToken ==
  /\ [][\A s \in SessionIds :
          s \notin sessions /\ s \in sessions' =>
            /\ heap'[s].Clients = {}
            /\ heap'[s].State.DisplayedTokens = EmptyMap
            /\ heap'[s].State.AreaTemplates = EmptyMap
            /\ heap'[s].State.BackgroundImgPath
                  = "/assets/default/maps/tavern.jpg"
            /\ heap'[s].State.ShowGrid = TRUE
            /\ heap'[s].State.GridUnit = 96]_vars
  /\ [](\A c \in Conns :
          (/\ wrote[c] # <<>>
           /\ wrote[c][1].msg.type = "state_update"
           /\ joinIdx[c] = 0) =>
            wrote[c][1].msg.payload = DefaultPayload)
  /\ [][\A c \in Conns :
          (/\ pc[c] = "broadcast" /\ pc'[c] = "active"
           /\ Len(cmdlog[sidOf[c]]) = 1
           /\ cmdlog[sidOf[c]][1].msg = CmdAddToken) =>
            \A x \in Clients(sidOf[c]) :
              LET w == Last(wrote[x]) IN
                /\ w.msg.type = "state_update"
                /\ DOMAIN w.msg.payload.displayedTokens = {"t1"}
                /\ w.msg.payload.displayedTokens["t1"].x = Goblin.X
                /\ w.msg.payload.displayedTokens["t1"].y = Goblin.Y
                /\ ~Closed(x) => w.ok]_vars

\* Two clients joined a new session and were sent the default state; the
\* first sent add_token t1, and both have been sent the state with t1.
C24_Witness ==
  \E s \in sessions :
    /\ Clients(s) = {1, 2}
    /\ pc[1] = "active" /\ pc[2] = "active"
    /\ cmdlog[s] = <<[msg |-> CmdAddToken, uuid |-> NoUuid, by |-> 1]>>
    /\ \A x \in {1, 2} :
         /\ Len(wrote[x]) = 2
         /\ wrote[x][1] = [msg |-> [type |-> "state_update",
                                     payload |-> DefaultPayload],
                            ok |-> TRUE]
         /\ wrote[x][2].ok
         /\ DOMAIN wrote[x][2].msg.payload.displayedTokens = {"t1"}

(***************************************************************************)
(* C25: toggle_grid negates ShowGrid and leaves the other four fields as   *)
(* they are; after two toggle_grid in a row the State is the one before    *)
(* them; and the j-th message written to a client of a session shows the   *)
(* grid on exactly when an even number of toggle_grid precede it in the    *)
(* log of the session, so that two clients see the same value at the same  *)
(* command.                                                                *)
(***************************************************************************)
Toggles(s, k) ==
  Cardinality({i \in 1 .. k : cmdlog[s][i].msg.type = "toggle_grid"})

C25_ToggleGrid ==
  /\ [][\A c \in Conns :
          (/\ pc[c] = "active" /\ pc'[c] = "broadcast"
           /\ Last(cmdlog'[sidOf[c]]).msg = CmdToggleGrid) =>
            LET old == heap[sidOf[c]].State
                new == heap'[sidOf[c]].State
            IN  /\ new.ShowGrid = ~old.ShowGrid
                /\ new.DisplayedTokens = old.DisplayedTokens
                /\ new.AreaTemplates = old.AreaTemplates
                /\ new.BackgroundImgPath = old.BackgroundImgPath
                /\ new.GridUnit = old.GridUnit]_vars
  /\ [](\A s \in sessions :
          LET n == Len(cmdlog[s]) IN
            (/\ n >= 2
             /\ cmdlog[s][n].msg = CmdToggleGrid
             /\ cmdlog[s][n - 1].msg = CmdToggleGrid) =>
               heap[s].State = StateAfter(s, n - 2))
  /\ [](\A x \in Conns :
          Joined(x) =>
            \A j \in 1 .. Len(wrote[x]) :
              /\ joinIdx[x] + j - 1 <= Len(cmdlog[sidOf[x]])
              /\ wrote[x][j].msg.payload.showGrid
                    = (Toggles(sidOf[x], joinIdx[x] + j - 1) % 2 = 0))

\* Two clients of a new session; client 1 sent toggle_grid twice, after an
\* add_token; both were sent the grid on, on, off, on.
C25_Witness ==
  \E s \in sessions :
    /\ Clients(s) = {1, 2}
    /\ mu = NoLock
    /\ joinIdx[1] = 0 /\ joinIdx[2] = 0
    /\ Len(cmdlog[s]) = 3
    /\ cmdlog[s][1].msg = CmdAddToken
    /\ cmdlog[s][2] = [msg |-> CmdToggleGrid, uuid |-> NoUuid, by |-> 1]
    /\ cmdlog[s][3] = [msg |-> CmdToggleGrid, uuid |-> NoUuid, by |-> 1]
    /\ heap[s].State = AddToken(NewState, "t1", Goblin)
    /\ \A x \in {1, 2} :
         [j \in 1 .. Len(wrote[x]) |-> wrote[x][j].msg.payload.showGrid]
           = <<TRUE, TRUE, FALSE, TRUE>>

(***************************************************************************)
(* C26: a LoadAllSnapshots that succeeds returns a map whose keys are the  *)
(* ids saved and not deleted since, each with the data of its last         *)
(* SaveSnapshot.                                                           *)
(***************************************************************************)
C26_StoreContract ==
  loadRet.ok => loadRet.snapshots = saved

(***************************************************************************)
(* C27: add_token and add_area_template insert the entity of the payload   *)
(* at the id of the payload (for a template without id, at the generated   *)
(* uuid), replacing what was stored under that id; every other key of the  *)
(* map keeps its value, the other map is the same, and background,         *)
(* showGrid and gridUnit are unchanged.                                    *)
(***************************************************************************)
ScalarsKept(old, new) ==
  /\ new.BackgroundImgPath = old.BackgroundImgPath
  /\ new.ShowGrid = old.ShowGrid
  /\ new.GridUnit = old.GridUnit

\* new is old with v stored under id and nothing else changed.
PutOnly(old, new, id, v) ==
  /\ DOMAIN new = DOMAIN old \cup {id}
  /\ new[id] = v
  /\ \A k \in DOMAIN old \ {id} : new[k] = old[k]

C27_AddInsertsOnly ==
  [][\A s \in SessionIds :
       Applies(s) /\ DecodeOK(Last(cmdlog'[s]).msg.payload) =>
         LET e   == Last(cmdlog'[s])
             p   == e.msg.payload
             old == heap[s].State
             new == heap'[s].State
         IN  /\ e.msg.type = "add_token" =>
                   /\ PutOnly(old.DisplayedTokens, new.DisplayedTokens,
                              FieldId(p), FieldToken(p))
                   /\ new.AreaTemplates = old.AreaTemplates
                   /\ ScalarsKept(old, new)
             /\ e.msg.type = "add_area_template" =>
                   /\ PutOnly(old.AreaTemplates, new.AreaTemplates,
                              IF FieldId(p) = "" THEN e.uuid ELSE FieldId(p),
                              FieldTemplate(p))
                   /\ new.DisplayedTokens = old.DisplayedTokens
                   /\ ScalarsKept(old, new)]_vars

\* The restored session with two tokens and two templates took an add_token
\* for the id of its goblin and an add_area_template for the id of its
\* circle; the connection was sent the state with both entities replaced
\* and the other token and template as they were.
C27_Witness ==
  /\ 1 \in sessions
  /\ mu = NoLock
  /\ Len(cmdlog[1]) = 2
  /\ cmdlog[1][1].msg = CmdAddTokenAgain
  /\ cmdlog[1][2].msg = CmdAddTemplateAgain
  /\ heap[1].State.DisplayedTokens = [k \in {"t1", "t2"} |-> Orc]
  /\ DOMAIN heap[1].State.AreaTemplates = {"a1", "a2"}
  /\ heap[1].State.AreaTemplates["a1"] = CmdAddTemplateAgain.payload.template
  /\ heap[1].State.AreaTemplates["a1"] # Circle
  /\ heap[1].State.AreaTemplates["a2"] = Square
  /\ heap[1].State.BackgroundImgPath = "/cave.jpg"
  /\ \E c \in Solo : /\ wrote[c] # <<>>
                      /\ Last(wrote[c]).msg = StateUpdate(heap[1].State)

(***************************************************************************)
(* C28: move_token and move_area_template on an id that is in the map set  *)
(* the x and y of that entity to the values of the payload; its other      *)
(* fields, the key set of the map, every other entity, the other map and   *)
(* the scalars are unchanged.                                              *)
(***************************************************************************)
OthersKept(old, new, id) ==
  /\ DOMAIN new = DOMAIN old
  /\ \A k \in DOMAIN old \ {id} : new[k] = old[k]

C28_MoveSetsPosition ==
  [][\A s \in SessionIds :
       Applies(s) /\ DecodeOK(Last(cmdlog'[s]).msg.payload) =>
         LET e   == Last(cmdlog'[s])
             p   == e.msg.payload
             id  == FieldId(p)
             old == heap[s].State
             new == heap'[s].State
         IN  /\ e.msg.type = "move_token" /\ id \in DOMAIN old.DisplayedTokens
                   => /\ OthersKept(old.DisplayedTokens, new.DisplayedTokens, id)
                      /\ new.DisplayedTokens[id].X = FieldX(p)
                      /\ new.DisplayedTokens[id].Y = FieldY(p)
                      /\ new.DisplayedTokens[id].Name
                            = old.DisplayedTokens[id].Name
                      /\ new.DisplayedTokens[id].ImgPath
                            = old.DisplayedTokens[id].ImgPath
                      /\ new.DisplayedTokens[id].TokenSize
                            = old.DisplayedTokens[id].TokenSize
                      /\ new.AreaTemplates = old.AreaTemplates
                      /\ ScalarsKept(old, new)
             /\ e.msg.type = "move_area_template"
                  /\ id \in DOMAIN old.AreaTemplates
                   => /\ OthersKept(old.AreaTemplates, new.AreaTemplates, id)
                      /\ new.AreaTemplates[id].X = FieldX(p)
                      /\ new.AreaTemplates[id].Y = FieldY(p)
                      /\ new.AreaTemplates[id].Shape
                            = old.AreaTemplates[id].Shape
                      /\ new.AreaTemplates[id].Size
                            = old.AreaTemplates[id].Size
                      /\ new.AreaTemplates[id].Color
                            = old.AreaTemplates[id].Color
                      /\ new.AreaTemplates[id].Opacity
                            = old.AreaTemplates[id].Opacity
                      /\ new.DisplayedTokens = old.DisplayedTokens
                      /\ ScalarsKept(old, new)]_vars

\* The restored session took a move_token for its goblin and a
\* move_area_template for its circle: both are at the new position with
\* their other fields, the orc and the square are as they were, and the
\* connection was sent that state.
C28_Witness ==
  /\ 1 \in sessions
  /\ mu = NoLock
  /\ Len(cmdlog[1]) = 2
  /\ cmdlog[1][1].msg = CmdMoveTokenA
  /\ cmdlog[1][2].msg = CmdMoveTemplate
  /\ DOMAIN heap[1].State.DisplayedTokens = {"t1", "t2"}
  /\ heap[1].State.DisplayedTokens["t1"]
       = [Goblin EXCEPT !.X = CmdMoveTokenA.payload.x,
                        !.Y = CmdMoveTokenA.payload.y]
  /\ heap[1].State.DisplayedTokens["t1"] # Goblin
  /\ heap[1].State.DisplayedTokens["t2"] = Orc
  /\ DOMAIN heap[1].State.AreaTemplates = {"a1", "a2"}
  /\ heap[1].State.AreaTemplates["a1"]
       = [Circle EXCEPT !.X = CmdMoveTemplate.payload.x,
                        !.Y = CmdMoveTemplate.payload.y]
  /\ heap[1].State.AreaTemplates["a1"] # Circle
  /\ heap[1].State.AreaTemplates["a2"] = Square
  /\ \E c \in Solo : /\ wrote[c] # <<>>
                      /\ Last(wrote[c]).msg = StateUpdate(heap[1].State)

(***************************************************************************)
(* C29: delete_token and delete_area_template remove the named id and keep *)
(* every other entry; clear_tokens leaves an empty token map and the area  *)
(* templates as they were, clear_area_templates an empty template map and  *)
(* the tokens as they were; an add command that follows a clear inserts    *)
(* its entity into the emptied map.                                        *)
(***************************************************************************)
\* new is old without id and nothing else changed.
RemovedOnly(old, new, id) ==
  /\ DOMAIN new = DOMAIN old \ {id}
  /\ \A k \in DOMAIN new : new[k] = old[k]

\* The command applied to session s before the one of this step.
PreviousType(s) ==
  IF Len(cmdlog[s]) = 0 THEN "none" ELSE Last(cmdlog[s]).msg.type

C29_DeleteAndClear ==
  [][\A s \in SessionIds :
       Applies(s) =>
         LET e   == Last(cmdlog'[s])
             p   == e.msg.payload
             old == heap[s].State
             new == heap'[s].State
         IN  /\ e.msg.type = "delete_token" /\ DecodeOK(p) =>
                   /\ RemovedOnly(old.DisplayedTokens, new.DisplayedTokens,
                                  FieldId(p))
                   /\ new.AreaTemplates = old.AreaTemplates
                   /\ ScalarsKept(old, new)
             /\ e.msg.type = "delete_area_template" /\ DecodeOK(p) =>
                   /\ RemovedOnly(old.AreaTemplates, new.AreaTemplates,
                                  FieldId(p))
                   /\ new.DisplayedTokens = old.DisplayedTokens
                   /\ ScalarsKept(old, new)
             /\ e.msg.type = "clear_tokens" =>
                   /\ DOMAIN new.DisplayedTokens = {}
                   /\ new.DisplayedTokens # NilMap
                   /\ new.AreaTemplates = old.AreaTemplates
                   /\ ScalarsKept(old, new)
             /\ e.msg.type = "clear_area_templates" =>
                   /\ DOMAIN new.AreaTemplates = {}
                   /\ new.AreaTemplates # NilMap
                   /\ new.DisplayedTokens = old.DisplayedTokens
                   /\ ScalarsKept(old, new)
             /\ (e.msg.type = "add_token" /\ DecodeOK(p)
                   /\ PreviousType(s) = "clear_tokens")
                  => /\ DOMAIN new.DisplayedTokens = {FieldId(p)}
                     /\ new.DisplayedTokens[FieldId(p)] = FieldToken(p)
             /\ (e.msg.type = "add_area_template" /\ DecodeOK(p)
                   /\ PreviousType(s) = "clear_area_templates")
                  => LET id == IF FieldId(p) = "" THEN e.uuid ELSE FieldId(p)
                     IN  /\ DOMAIN new.AreaTemplates = {id}
                         /\ new.AreaTemplates[id] = FieldTemplate(p)]_vars

\* The restored session with two tokens and two templates took
\* clear_tokens and then add_token: it holds the added token alone and both
\* templates, and the connection was sent that state.
C29_Witness ==
  /\ 1 \in sessions
  /\ mu = NoLock
  /\ base[1].DisplayedTokens = RichState.DisplayedTokens
  /\ Len(cmdlog[1]) = 2
  /\ cmdlog[1][1].msg = CmdClearTokens
  /\ cmdlog[1][2].msg = CmdAddTokenNew
  /\ heap[1].State.DisplayedTokens = [k \in {"t3"} |-> Orc]
  /\ heap[1].State.AreaTemplates = RichState.AreaTemplates
  /\ \E c \in Solo : /\ Len(wrote[c]) = 3
                      /\ wrote[c][2].msg.payload.displayedTokens = EmptyMap
                      /\ Last(wrote[c]).msg = StateUpdate(heap[1].State)

\* The restored session took delete_token for its orc and
\* delete_area_template for its circle: the goblin and the square are left.
C29_WitnessDelete ==
  /\ 1 \in sessions
  /\ mu = NoLock
  /\ Len(cmdlog[1]) = 2
  /\ cmdlog[1][1].msg = CmdDeleteTokenAbsent
  /\ cmdlog[1][2].msg = CmdDeleteTemplate
  /\ heap[1].State.DisplayedTokens = [k \in {"t1"} |-> Goblin]
  /\ heap[1].State.AreaTemplates = [k \in {"a2"} |-> Square]

(***************************************************************************)
(* C30: the step that applies a command to the State of one session leaves *)
(* the set of sessions, the connection set of every session, the State of  *)
(* every other session and what was written to every connection as they    *)
(* were; and the State of a session is always its State at creation or     *)
(* restoration with the commands of that session applied, whatever the     *)
(* other sessions were sent: no two sessions hold the same map.            *)
(***************************************************************************)
C30_OnlyGivenState ==
  /\ [][\A s \in SessionIds :
          Applies(s) =>
            /\ sessions' = sessions
            /\ \A x \in SessionIds : heap'[x].Clients = heap[x].Clients
            /\ \A x \in SessionIds \ {s} : heap'[x].State = heap[x].State
            /\ heap'[s].State
                 = processCommand(Last(cmdlog'[s]).msg, heap[s].State,
                                  Last(cmdlog'[s]).uuid)
            /\ wrote' = wrote
            /\ sidOf' = sidOf]_vars
  /\ [](\A s \in sessions : heap[s].State = StateAfter(s, Len(cmdlog[s])))

\* Session 1 was restored with a goblin under t1 and has a client; the
\* client of a session created since sent add_token for t1 with an orc: the
\* new session holds the orc alone, session 1 its two tokens as restored,
\* and the client of session 1 was sent nothing but the state it joined.
C30_Witness ==
  \E s \in sessions \ {1} :
    /\ 1 \in sessions
    /\ mu = NoLock
    /\ Clients(1) # {} /\ Clients(s) # {}
    /\ cmdlog[1] = <<>>
    /\ Len(cmdlog[s]) = 1
    /\ cmdlog[s][1].msg = CmdAddTokenAgain
    /\ heap[s].State = AddToken(NewState, "t1", Orc)
    /\ heap[1].State = RichState
    /\ \A x \in Clients(1) :
         /\ Len(wrote[x]) = 1
         /\ wrote[x][1].msg = StateUpdate(RichState)

(***************************************************************************)
(* C31: whenever m.mu is free, the last state_update written to every      *)
(* connection in the Clients of every session carries the State the        *)
(* session has now; for a connection that is not closed that write         *)
(* succeeded.                                                              *)
(***************************************************************************)
C31_Converged ==
  mu = NoLock =>
    \A s \in sessions :
      \A c \in Clients(s) :
        /\ wrote[c] # <<>>
        /\ Last(wrote[c]).msg = StateUpdate(heap[s].State)
        /\ ~Closed(c) => Last(wrote[c]).ok

\* Two clients of one session have each sent a command; the lock is free
\* and both were last sent the state after the second command, which is not
\* the state they joined with.
C31_Witness ==
  \E s \in sessions :
    /\ mu = NoLock
    /\ Clients(s) = {1, 2}
    /\ pc[1] = "active" /\ pc[2] = "active"
    /\ Len(cmdlog[s]) = 2
    /\ cmdlog[s][1].by # cmdlog[s][2].by
    /\ heap[s].State # NewState
    /\ heap[s].State # StateAfter(s, 1)
    /\ \A c \in {1, 2} :
         /\ Len(wrote[c]) >= 3
         /\ Last(wrote[c]).msg = StateUpdate(heap[s].State)
         /\ wrote[c][Len(wrote[c]) - 1].msg # Last(wrote[c]).msg

(***************************************************************************)
(* C32: a message read that is no command envelope changes no State and    *)
(* starts no broadcast; a message read that is an envelope starts one      *)
(* broadcast of the State to all Clients of the session, with the State    *)
(* unchanged when its type is unknown or its payload does not decode; so   *)
(* every member has been written its initial state and one state_update    *)
(* per envelope read in the session since it joined.                       *)
(***************************************************************************)
\* The envelopes among the first k messages read on connection c.
RECURSIVE EnvelopesRead(_, _)
EnvelopesRead(c, k) ==
  IF k = 0 THEN 0
  ELSE EnvelopesRead(c, k - 1) + (IF recv[c][k] = NotEnvelope THEN 0 ELSE 1)

\* The envelopes read on the connections of session s.
RECURSIVE EnvelopesOf(_, _)
EnvelopesOf(s, C) ==
  IF C = {} THEN 0
  ELSE LET c == CHOOSE c \in C : TRUE
       IN  (IF sidOf[c] = s /\ pc[c] # "idle"
              THEN EnvelopesRead(c, Len(recv[c])) ELSE 0)
             + EnvelopesOf(s, C \ {c})

C32_EnvelopeOrNothing ==
  /\ [][\A c \in Conns :
          recv'[c] # recv[c] =>
            IF Last(recv'[c]) = NotEnvelope
              THEN /\ heap' = heap /\ cmdlog' = cmdlog
                   /\ wrote' = wrote /\ todo' = todo /\ bdata' = bdata
                   /\ mu' = mu /\ pc' = pc
              ELSE /\ mu' = c
                   /\ pc'[c] = "broadcast"
                   /\ todo'[c] = Clients(sidOf[c])
                   /\ bdata'[c] = StateUpdate(heap'[sidOf[c]].State)
                   /\ wrote' = wrote
                   /\ Dropped(Last(recv'[c])) => heap' = heap]_vars
  /\ [](mu = NoLock =>
          \A s \in sessions :
            /\ Len(cmdlog[s]) = EnvelopesOf(s, Conns)
            /\ \A x \in Clients(s) :
                 Len(wrote[x]) = 1 + Len(cmdlog[s]) - joinIdx[x])

\* A client has read a message that is no envelope, then a command of an
\* unknown type, then one whose payload does not decode: it and the other
\* client of the session were written the initial state and two
\* state_updates, all three of them the state of a new session.
C32_Witness ==
  \E s \in sessions :
    /\ mu = NoLock
    /\ Clients(s) = {1, 2}
    /\ joinIdx[1] = 0 /\ joinIdx[2] = 0
    /\ \E c \in {1, 2} :
         recv[c] = <<NotEnvelope, CmdUnknown, CmdAddTokenMalformed>>
    /\ Len(cmdlog[s]) = 2
    /\ heap[s].State = NewState
    /\ \A x \in {1, 2} :
         /\ Len(wrote[x]) = 3
         /\ \A j \in 1 .. 3 : wrote[x][j].msg = StateUpdate(NewState)

(***************************************************************************)
(* C33: the registry never holds more than MaxSessions sessions, also      *)
(* after RestoreSessions has inserted the sessions of the stored           *)
(* snapshots.                                                              *)
(***************************************************************************)
C33_RegistryBounded ==
  Cardinality(sessions) <= MaxSessions

(***************************************************************************)
(* C34: a session whose Clients is empty is always eventually removed from *)
(* the registry (or joined), also a session that CreateSession or          *)
(* RestoreSessions inserted and no connection ever joined.                 *)
(***************************************************************************)
C34_EmptyReclaimed ==
  \A s \in SessionIds :
    (s \in sessions /\ heap[s].Clients = {})
      ~> (s \notin sessions \/ heap[s].Clients # {})

(***************************************************************************)
(* C36: RestoreSessions never inserts a session that a timer had deleted   *)
(* from the registry before the process ended: the row of a reclaimed      *)
(* session is deleted, or not restored.                                    *)
(***************************************************************************)
C36_ReclaimedStayGone ==
  [][Boots => sessions' \cap reclaimed = {}]_vars

(***************************************************************************)
(* C35: no command writes the token map or the area-template map of a      *)
(* session while a saveAllSnapshots under way holds a copy of the State    *)
(* that shares the map and has not serialised it yet: the reads of the     *)
(* snapshot goroutine and the writes of processCommand exclude each other. *)
(***************************************************************************)
C35_MapAccessExclusive ==
  [][\A s \in SessionIds :
       Applies(s) /\ snapPc = "saving" /\ s \in DOMAIN snaps =>
         LET msg == Last(cmdlog'[s]).msg IN
           /\ ~(snaps[s].tokShared /\ WritesTokens(msg, heap[s].State))
           /\ ~(snaps[s].tmplShared /\ WritesTemplates(msg, heap[s].State))]_vars

(***************************************************************************)
(* C37: once StopPeriodicSnapshots has returned no pass of the snapshot    *)
(* goroutine starts and nothing is written to the store; and a row the     *)
(* final pass has saved is not overwritten by a pass of the goroutine,     *)
(* whether that pass was under way when StopPeriodicSnapshots was called   *)
(* or started from a tick that was ready together with the stop signal.    *)
(***************************************************************************)
C37_StopIsFinal ==
  /\ [][final.pc = "returned" =>
          /\ ~(snapPc = "idle" /\ snapPc' = "saving")
          /\ store' = store]_vars
  /\ [][\A s \in final.done :
          final'.pc # "none" => s \in DOMAIN store' /\ store'[s] = store[s]]_vars

(***************************************************************************)
(* C38: a WriteMessage that fails during a broadcast does not end the      *)
(* broadcast: the loop goes on with the other clients, and when the        *)
(* handler releases the lock every member of Clients has been written the  *)
(* payload, the open ones with success, and the State holds the mutation;  *)
(* a connection leaves Clients only in the deferred function of its own    *)
(* handler, after its read has failed.                                     *)
(***************************************************************************)
C38_FailedWriteSkipped ==
  /\ [][\A c, x \in Conns :
          /\ pc[c] = "broadcast"
          /\ wrote'[x] # wrote[x]
          /\ ~Last(wrote'[x]).ok
          => /\ todo'[c] = todo[c] \ {x}
             /\ pc'[c] = "broadcast"
             /\ heap' = heap]_vars
  /\ [][\A c \in Conns :
          pc[c] = "broadcast" /\ pc'[c] = "active" =>
            /\ bdata[c] = StateUpdate(heap[sidOf[c]].State)
            /\ heap' = heap
            /\ \A x \in Clients(sidOf[c]) :
                 /\ wrote[x] # <<>>
                 /\ Last(wrote[x]).msg = bdata[c]
                 /\ ~Closed(x) => Last(wrote[x]).ok]_vars
  /\ [][\A s \in SessionIds :
          \A x \in heap[s].Clients \ heap'[s].Clients :
            /\ pc[x] = "leaving" /\ pc'[x] = "done"
            /\ sidOf[x] = s
            /\ heap'[s].Clients = heap[s].Clients \ {x}]_vars

\* Client 2 has been closed by its handler and is still in Clients; client
\* 1 sent add_token: the write to client 2 failed, client 1 was written the
\* state with the token, which the session holds, and the lock is free.
C38_Witness ==
  \E s \in sessions :
    /\ mu = NoLock
    /\ Clients(s) = {1, 2}
    /\ pc[1] = "active" /\ pc[2] = "leaving"
    /\ Len(cmdlog[s]) = 1
    /\ cmdlog[s][1] = [msg |-> CmdAddToken, uuid |-> NoUuid, by |-> 1]
    /\ heap[s].State = AddToken(NewState, "t1", Goblin)
    /\ Last(wrote[2]) = [msg |-> StateUpdate(heap[s].State), ok |-> FALSE]
    /\ Last(wrote[1]) = [msg |-> StateUpdate(heap[s].State), ok |-> TRUE]

(***************************************************************************)
(* C39: from the moment a handler starts its initial sendState or a        *)
(* broadcast until its writes have returned it holds m.mu, and as long as  *)
(* a write has not returned nothing that needs the lock happens: no        *)
(* command is applied, no Clients changes, no session is created, looked   *)
(* up for a join or removed, no timer function runs and saveAllSnapshots   *)
(* takes no copy.                                                          *)
(***************************************************************************)
Writing(c) == pc[c] \in {"sending", "broadcast"}

C39_LockHeldWhileWriting ==
  /\ [](\A c \in Conns : Writing(c) => mu = c)
  /\ [][\A c \in Conns :
          Writing(c) /\ wrote' = wrote /\ pc'[c] = pc[c] =>
            /\ mu' = c
            /\ heap' = heap
            /\ sessions' = sessions
            /\ cmdlog' = cmdlog
            /\ resp' = resp
            /\ \A x \in Conns :
                 /\ pc[x] = "idle" => pc'[x] = "idle"
                 /\ pc[x] = "leaving" => pc'[x] = "leaving"
                 /\ timer[x] = 0 => timer'[x] = 0
            /\ snapPc = "idle" => snapPc' = "idle"]_vars

\* The handler of client 1 is in a broadcast with a write outstanding; the
\* timer of client 2, which left another session empty, has expired and
\* its function waits for the lock, and the snapshot goroutine is idle.
C39_Witness ==
  /\ pc[1] = "broadcast"
  /\ todo[1] # {}
  /\ mu = 1
  /\ timer[2] = 0
  /\ sidOf[2] \in sessions
  /\ sidOf[2] # sidOf[1]
  /\ Clients(sidOf[2]) = {}
  /\ snapPc = "idle"

(***************************************************************************)
(* C40: a connection is in the Clients of at most one session, a session   *)
(* with a client is in the registry, and the session a handler holds is    *)
(* the one the registry holds under that id: the handler is in its         *)
(* Clients from its admission to its removal, an id is inserted into the   *)
(* registry once, every command is applied and broadcast to a session of   *)
(* the registry, and a timer function that runs when the session is        *)
(* already gone changes nothing.                                           *)
(***************************************************************************)
Holds(c) == pc[c] \in {"sending", "active", "broadcast", "leaving"}

C40_OneSessionPerConnection ==
  /\ [](\A c \in Conns :
          Cardinality({s \in SessionIds : c \in heap[s].Clients}) <= 1)
  /\ [](\A s \in SessionIds : heap[s].Clients # {} => s \in sessions)
  /\ [](\A c \in Conns :
          /\ Holds(c) => sidOf[c] \in sessions /\ c \in Clients(sidOf[c])
          /\ ~Holds(c) => \A s \in SessionIds : c \notin heap[s].Clients)
  /\ [][\A s \in SessionIds : s \in sessions' \ sessions => s \notin usedIds]_vars
  /\ [][\A s \in SessionIds :
          Applies(s) =>
            /\ s \in sessions
            /\ Last(cmdlog'[s]).by \in Clients(s)
            /\ todo'[Last(cmdlog'[s]).by] = Clients(s)]_vars
  /\ [][\A c \in Conns :
          timer[c] = 0 /\ timer'[c] = Fired /\ sidOf[c] \notin sessions =>
            sessions' = sessions /\ heap' = heap]_vars

\* Two clients joined the same session one after the other and each left
\* it empty; a command had been applied to it.  Both timers have fired: the
\* first removed the session, the second found it gone.
C40_Witness ==
  /\ timer[1] = Fired /\ timer[2] = Fired
  /\ sidOf[1] = sidOf[2]
  /\ sidOf[1] \in usedIds \ sessions
  /\ cmdlog[sidOf[1]] # <<>>
  /\ sessions # {}
  /\ mu = NoLock

====
